---- MODULE Spec2Model ----
(***************************************************************************)
(* crackmes.one: the content lifecycle of solutions and comments, the      *)
(* per-crackme counters NbSolutions / NbComments, the notifications sent   *)
(* by the request handlers and the storage path of an uploaded solution.   *)
(*                                                                         *)
(* Strings that take part in path construction are sequences of            *)
(* one-character strings; user names and crackme names are atoms, mapped   *)
(* to their characters by Chars.                                           *)
(***************************************************************************)
EXTENDS Integers, Sequences, FiniteSets, TLC

(***************************************************************************)
(* Bounds of the model.                                                    *)
(***************************************************************************)
\* Requests that pass validation (uploads past the size guard, comments
\* created) in one behaviour; no request is taken up once it is reached.
MaxRequests == 2
\* Longest uploaded file name enumerated by the path specification.
MaxNameLen == 6

\* Concurrent UploadSolutionPOST request tasks.
Procs == {"t1", "t2"}

(***************************************************************************)
(* Strings                                                                 *)
(***************************************************************************)
Str0 == << >>

Lower == {"a", "b", "c", "d", "e", "f", "i", "l", "m", "n", "o", "p", "s", "t", "u", "w"}
Upper == {"A", "E"}
Digits == {"0", "1", "2", "3", "4", "5", "6", "7", "8", "9"}
\* POSIX [:alnum:]
Alnum == Lower \cup Upper \cup Digits

\* strings.ToLower, one character
LowerChar(c) == IF c = "A" THEN "a" ELSE IF c = "E" THEN "e" ELSE c

ToLower(s) == [i \in 1..Len(s) |-> LowerChar(s[i])]

\* strings.HasPrefix
HasPrefix(s, prefix) ==
    /\ Len(prefix) <= Len(s)
    /\ SubSeq(s, 1, Len(prefix)) = prefix

\* strings.Trim(s, " ")
RECURSIVE TrimSpace(_)
TrimSpace(s) ==
    IF s = Str0 THEN s
    ELSE IF Head(s) = " " THEN TrimSpace(Tail(s))
    ELSE IF s[Len(s)] = " " THEN TrimSpace(SubSeq(s, 1, Len(s) - 1))
    ELSE s

\* The elements of a path between separators, empty ones included.
RECURSIVE SplitSlash(_)
SplitSlash(s) ==
    IF \A i \in 1..Len(s) : s[i] # "/" THEN <<s>>
    ELSE LET k == CHOOSE i \in 1..Len(s) :
                      /\ s[i] = "/"
                      /\ \A j \in 1..(i - 1) : s[j] # "/"
         IN  <<SubSeq(s, 1, k - 1)>> \o SplitSlash(SubSeq(s, k + 1, Len(s)))

RECURSIVE JoinSlash(_)
JoinSlash(elems) ==
    IF elems = << >> THEN Str0
    ELSE IF Len(elems) = 1 THEN elems[1]
    ELSE elems[1] \o <<"/">> \o JoinSlash(Tail(elems))

(***************************************************************************)
(* path/filepath (Unix)                                                    *)
(***************************************************************************)
RECURSIVE StripTrailingSlashes(_)
StripTrailingSlashes(s) ==
    IF s # Str0 /\ s[Len(s)] = "/"
    THEN StripTrailingSlashes(SubSeq(s, 1, Len(s) - 1))
    ELSE s

\* filepath.Base / path.Base
Base(path) ==
    IF path = Str0 THEN <<".">>
    ELSE LET p == StripTrailingSlashes(path)
             elems == SplitSlash(p)
         IN  IF p = Str0 THEN <<"/">> ELSE elems[Len(elems)]

\* The element stack of filepath.Clean: "." and empty elements are dropped,
\* ".." removes the element before it, is dropped at the root of a rooted
\* path and is kept at the start of a relative one.
RECURSIVE CleanElems(_, _, _)
CleanElems(elems, out, rooted) ==
    IF elems = << >> THEN out
    ELSE LET e == Head(elems)
             rest == Tail(elems)
         IN  IF e = Str0 \/ e = <<".">> THEN CleanElems(rest, out, rooted)
             ELSE IF e = <<".", ".">>
             THEN IF out # << >> /\ out[Len(out)] # <<".", ".">>
                  THEN CleanElems(rest, SubSeq(out, 1, Len(out) - 1), rooted)
                  ELSE IF rooted THEN CleanElems(rest, out, rooted)
                  ELSE CleanElems(rest, Append(out, e), rooted)
             ELSE CleanElems(rest, Append(out, e), rooted)

\* filepath.Clean / path.Clean
Clean(path) ==
    IF path = Str0 THEN <<".">>
    ELSE LET rooted == path[1] = "/"
             body == JoinSlash(CleanElems(SplitSlash(path), << >>, rooted))
         IN  IF rooted THEN <<"/">> \o body
             ELSE IF body = Str0 THEN <<".">> ELSE body

\* filepath.Join of two elements
Join(a, b) ==
    IF a = Str0 /\ b = Str0 THEN Str0
    ELSE IF a = Str0 THEN Clean(b)
    ELSE IF b = Str0 THEN Clean(a)
    ELSE Clean(a \o <<"/">> \o b)

(***************************************************************************)
(* github.com/kennygrant/sanitize, as called by UploadSolutionPOST         *)
(***************************************************************************)
\* separators = [ &_=+:], each replaced by a dash
Separators == {" ", "&", "_", "=", "+", ":"}

\* illegalName = [^[:alnum:]-.], each occurrence removed
IsLegalNameChar(c) == c \in Alnum \cup {"-", "."}

ReplaceSeparators(s) == [i \in 1..Len(s) |-> IF s[i] \in Separators THEN "-" ELSE s[i]]

RemoveIllegal(s) == SelectSeq(s, IsLegalNameChar)

\* dashes = [\-]+, each run replaced by one dash
RECURSIVE CollapseDashes(_)
CollapseDashes(s) ==
    IF Len(s) < 2 THEN s
    ELSE IF s[1] = "-" /\ s[2] = "-" THEN CollapseDashes(Tail(s))
    ELSE <<s[1]>> \o CollapseDashes(Tail(s))

\* sanitize.cleanString(s, illegalName); Accents leaves ASCII unchanged
CleanString(s) == CollapseDashes(RemoveIllegal(ReplaceSeparators(TrimSpace(s))))

\* sanitize.Name
SanitizeName(s) == CleanString(Clean(Base(ToLower(s))))

(***************************************************************************)
(* State                                                                   *)
(***************************************************************************)
VARIABLES
    connected,       \* database.CheckConnection(): the store is reachable
    nextObjId,       \* the next value of primitive.NewObjectID()
    crackmes,        \* collection "crackme", in insertion order
    solutions,       \* collection "solution", in insertion order
    comments,        \* collection "comment", in insertion order
    notifications,   \* collection "notifications", in insertion order
    files,           \* the paths os.WriteFile has written
    env,             \* the environment variables of the process
    config,          \* storage.config, set by init()
    pc,              \* where each UploadSolutionPOST task stands
    req,             \* the locals of each UploadSolutionPOST task
    repair,          \* where the repair run stands, and the counts it has taken
    commentPc,       \* where the LeaveCommentPOST task stands
    commentReq,      \* the locals of the LeaveCommentPOST task
    flash,           \* the flash message added by the last step, and the task it is for
    served,          \* requests that have passed validation
    approved,        \* history: ObjectIds on which SolutionApprove has acted
    users,           \* collection "user", in insertion order
    userPc,          \* where each RegisterPOST / ResetPasswordWithCurrentPOST task stands
    userReq          \* the locals of each such task

vars == <<connected, nextObjId, crackmes, solutions, comments, notifications,
          files, env, config, pc, req, commentPc, commentReq, flash, served,
          approved, users, userPc, userReq, repair>>

userVars == <<users, userPc, userReq>>

Users == {"alice", "bob"}

\* The characters of the atoms that appear in paths.
Chars(a) ==
    CASE a = "alice" -> <<"a", "l", "i", "c", "e">>
      [] a = "bob" -> <<"b", "o", "b">>
      [] OTHER -> Str0

(***************************************************************************)
(* primitive.ObjectID: a number here, rendered by Hex as two hex digits    *)
(* (twenty-four in the driver); 0 is primitive.NilObjectID.                *)
(***************************************************************************)
HexDigits == <<"0", "1", "2", "3", "4", "5", "6", "7", "8", "9", "a", "b", "c", "d", "e", "f">>

NilObjectID == 0

ObjectIds == 0..255

\* primitive.ObjectID.Hex
Hex(id) == <<HexDigits[(id \div 16) + 1], HexDigits[(id % 16) + 1]>>

\* primitive.ObjectIDFromHex: NilObjectID and an error for anything else
ObjectIDFromHex(h) ==
    IF \E id \in ObjectIds : Hex(id) = h
    THEN [id |-> CHOOSE id \in ObjectIds : Hex(id) = h, err |-> "nil"]
    ELSE [id |-> NilObjectID, err |-> "ErrInvalidHex"]

\* standardizeError: mongo.ErrNoDocuments becomes ErrNoResult
standardizeError(err) == IF err = "ErrNoDocuments" THEN "ErrNoResult" ELSE err

(***************************************************************************)
(* storage                                                                 *)
(***************************************************************************)
DefaultCrackmePath == <<"t", "m", "p", "/", "c", "r", "a", "c", "k", "m", "e">>
DefaultSolutionPath == <<"t", "m", "p", "/", "s", "o", "l", "u", "t", "i", "o", "n">>

\* Configure, had the solution root fallen back to the crackme root
ConfigureShared(e) ==
    LET crackmePath == IF e.CRACKME_STORAGE_PATH = Str0
                       THEN DefaultCrackmePath ELSE e.CRACKME_STORAGE_PATH
    IN  [CrackmePath  |-> crackmePath,
         SolutionPath |-> IF e.SOLUTION_STORAGE_PATH = Str0
                          THEN crackmePath ELSE e.SOLUTION_STORAGE_PATH]

\* storage.Configure
Configure(e) ==
    [CrackmePath  |-> IF e.CRACKME_STORAGE_PATH = Str0
                      THEN DefaultCrackmePath ELSE e.CRACKME_STORAGE_PATH,
     SolutionPath |-> IF e.SOLUTION_STORAGE_PATH = Str0
                      THEN DefaultSolutionPath ELSE e.SOLUTION_STORAGE_PATH]

\* var config Info, before init() has run
ZeroInfo == [CrackmePath |-> Str0, SolutionPath |-> Str0]

GetCrackmePath == config.CrackmePath

\* GetSolutionPath, had it resolved the root from the environment at each call
GetSolutionPathLive == Configure(env).SolutionPath

GetSolutionPath == config.SolutionPath

(***************************************************************************)
(* Records                                                                 *)
(***************************************************************************)
EmptyCrackme ==
    [ObjectId |-> NilObjectID, HexId |-> Str0, Name |-> "", Author |-> "",
     Visible |-> FALSE, Deleted |-> FALSE, NbSolutions |-> 0, NbComments |-> 0]

\* Solution{}; Info and CreatedAt are left out
EmptySolution ==
    [ObjectId |-> NilObjectID, HexId |-> Str0, CrackmeId |-> NilObjectID,
     CrackmeHexId |-> Str0, CrackmeName |-> "", Author |-> "",
     Visible |-> FALSE, Deleted |-> FALSE]

\* The two crackmes of the model, as MockCrackme builds one: visible, not
\* deleted, both counters 0.
MockCrackme(id, name, author) ==
    [ObjectId |-> id, HexId |-> Hex(id), Name |-> name, Author |-> author,
     Visible |-> TRUE, Deleted |-> FALSE, NbSolutions |-> 0, NbComments |-> 0]

\* Indices of a collection
Ix(coll) == 1..Len(coll)

\* The least index of a set of indices: the document FindOne returns
First(S) == CHOOSE i \in S : \A j \in S : i <= j

RECURSIVE Reverse(_)
Reverse(q) == IF q = << >> THEN q ELSE Append(Reverse(Tail(q)), Head(q))

(***************************************************************************)
(* model: crackme                                                          *)
(***************************************************************************)
\* model.CrackmeByHexId
CrackmeByHexId(hexid) ==
    IF ~connected THEN [res |-> EmptyCrackme, err |-> "ErrUnavailable"]
    ELSE LET hit == {i \in Ix(crackmes) : crackmes[i].HexId = hexid}
         IN  IF hit = {} THEN [res |-> EmptyCrackme, err |-> "ErrNoResult"]
             ELSE [res |-> crackmes[First(hit)], err |-> "nil"]

\* model.CrackmeIncrementSolutions: $inc nb_solutions by 1 on the crackme
\* with this hex id
CrackmeIncrementSolutions(cs, hexid) ==
    [i \in Ix(cs) |->
        IF cs[i].HexId = hexid
        THEN [cs[i] EXCEPT !.NbSolutions = @ + 1] ELSE cs[i]]

\* model.CrackmeIncrementComments: $inc nb_comments by 1 on the crackme
\* with this hex id
CrackmeIncrementComments(cs, hexid) ==
    [i \in Ix(cs) |->
        IF cs[i].HexId = hexid
        THEN [cs[i] EXCEPT !.NbComments = @ + 1] ELSE cs[i]]

\* CrackmeSetCounts, had it added the two numbers to the counters
CrackmeSetCountsAdding(cs, hexid, nbsolutions, nbcomments) ==
    [i \in Ix(cs) |->
        IF cs[i].HexId = hexid
        THEN [cs[i] EXCEPT !.NbSolutions = @ + nbsolutions, !.NbComments = @ + nbcomments]
        ELSE cs[i]]

\* model.CrackmeSetCounts: absolute overwrite of both counters on the
\* crackme with this hex id
CrackmeSetCounts(cs, hexid, nbsolutions, nbcomments) ==
    [i \in Ix(cs) |->
        IF cs[i].HexId = hexid
        THEN [cs[i] EXCEPT !.NbSolutions = nbsolutions, !.NbComments = nbcomments]
        ELSE cs[i]]

(***************************************************************************)
(* model: solution                                                         *)
(***************************************************************************)
\* model.CountSolutions: EstimatedDocumentCount, every document counted
CountSolutions ==
    IF connected THEN [nb |-> Len(solutions), err |-> "nil"]
    ELSE [nb |-> 0, err |-> "ErrUnavailable"]

\* model.CountSolutionsByUser: filter {author, visible: true}
CountSolutionsByUser(username) ==
    IF connected
    THEN [nb |-> Cardinality({i \in Ix(solutions) :
                     /\ solutions[i].Author = username
                     /\ solutions[i].Visible}),
          err |-> "nil"]
    ELSE [nb |-> 0, err |-> "ErrUnavailable"]

\* model.CountSolutionsByCrackme: filter {crackmeid, visible: true}; the
\* error of ObjectIDFromHex is overwritten
CountSolutionsByCrackme(crackmehexid) ==
    IF connected
    THEN LET objid == ObjectIDFromHex(crackmehexid).id
         IN  [nb |-> Cardinality({i \in Ix(solutions) :
                         /\ solutions[i].CrackmeId = objid
                         /\ solutions[i].Visible}),
              err |-> "nil"]
    ELSE [nb |-> 0, err |-> "ErrUnavailable"]

\* SolutionByHexId, had it looked the document up by hex id alone
SolutionByHexIdAny(hexid) ==
    IF connected
    THEN LET hit == {i \in Ix(solutions) : solutions[i].HexId = hexid}
         IN  IF hit = {} THEN [res |-> EmptySolution, err |-> "ErrNoDocuments"]
             ELSE [res |-> solutions[First(hit)], err |-> "nil"]
    ELSE [res |-> EmptySolution, err |-> "ErrUnavailable"]

\* model.SolutionByHexId: FindOne {hexid, visible: true}
SolutionByHexId(hexid) ==
    IF connected
    THEN LET hit == {i \in Ix(solutions) :
                        /\ solutions[i].HexId = hexid
                        /\ solutions[i].Visible}
         IN  IF hit = {} THEN [res |-> EmptySolution, err |-> "ErrNoDocuments"]
             ELSE [res |-> solutions[First(hit)], err |-> "nil"]
    ELSE [res |-> EmptySolution, err |-> "ErrUnavailable"]

\* model.SolutionsByUser: Find {author, visible: true}, newest first
SolutionsByUser(username) ==
    IF connected
    THEN LET Match(s) == s.Author = username /\ s.Visible
         IN  [res |-> Reverse(SelectSeq(solutions, Match)), err |-> "nil"]
    ELSE [res |-> << >>, err |-> "ErrUnavailable"]

\* model.SolutionsByUserAndCrackMe: FindOne {crackmeid, author}; the error of
\* CrackmeByHexId is dropped and its zero value used
SolutionsByUserAndCrackMe(username, crackmehexid) ==
    LET crackme == CrackmeByHexId(crackmehexid).res
    IN  IF connected
        THEN LET hit == {i \in Ix(solutions) :
                            /\ solutions[i].CrackmeId = crackme.ObjectId
                            /\ solutions[i].Author = username}
             IN  IF hit = {} THEN [res |-> EmptySolution, err |-> "ErrNoDocuments"]
                 ELSE [res |-> solutions[First(hit)], err |-> "nil"]
        ELSE [res |-> EmptySolution, err |-> "ErrUnavailable"]

\* model.SolutionsByCrackme: Find {crackmeid, visible: true}
SolutionsByCrackme(crackme) ==
    IF connected
    THEN LET Match(s) == s.CrackmeId = crackme /\ s.Visible
         IN  [res |-> SelectSeq(solutions, Match), err |-> "nil"]
    ELSE [res |-> << >>, err |-> "ErrUnavailable"]

\* NewSolution, had it taken the crackme's hex id for the solution's own
NewSolutionCrackmeHex(objId, username, crackme) ==
    [ObjectId     |-> objId,
     HexId        |-> crackme.HexId,
     CrackmeId    |-> crackme.ObjectId,
     CrackmeHexId |-> crackme.HexId,
     CrackmeName  |-> crackme.Name,
     Author       |-> username,
     Visible      |-> FALSE,
     Deleted      |-> FALSE]

\* The document SolutionCreate builds
NewSolution(objId, username, crackme) ==
    [ObjectId     |-> objId,
     HexId        |-> Hex(objId),
     CrackmeId    |-> crackme.ObjectId,
     CrackmeHexId |-> crackme.HexId,
     CrackmeName  |-> crackme.Name,
     Author       |-> username,
     Visible      |-> FALSE,
     Deleted      |-> FALSE]

\* SolutionCreate, had it incremented the crackme's counter on creation
SolutionCreateCounting(username, crackmehexid) ==
    LET found == CrackmeByHexId(crackmehexid)
    IN  IF found.err # "nil" \/ ~connected
        THEN [coll |-> solutions, crackmes |-> crackmes, err |-> "ErrUnavailable"]
        ELSE [coll |-> Append(solutions, NewSolution(nextObjId, username, found.res)),
              crackmes |-> CrackmeIncrementSolutions(crackmes, crackmehexid),
              err |-> "nil"]

\* SolutionCreate, had it inserted the solution as visible
SolutionCreateVisible(username, crackmehexid) ==
    LET found == CrackmeByHexId(crackmehexid)
    IN  IF found.err # "nil" \/ ~connected
        THEN [coll |-> solutions, crackmes |-> crackmes, err |-> "ErrUnavailable"]
        ELSE [coll |-> Append(solutions,
                           [NewSolution(nextObjId, username, found.res) EXCEPT !.Visible = TRUE]),
              crackmes |-> crackmes,
              err |-> "nil"]

\* SolutionCreate, had it replaced the author's earlier document for the
\* crackme (an upsert on {crackmeid, author}) instead of inserting
SolutionCreateUpsert(username, crackmehexid) ==
    LET found == CrackmeByHexId(crackmehexid)
        old == {i \in Ix(solutions) :
                   /\ solutions[i].CrackmeId = found.res.ObjectId
                   /\ solutions[i].Author = username}
    IN  IF found.err # "nil" \/ ~connected
        THEN [coll |-> solutions, crackmes |-> crackmes, err |-> "ErrUnavailable"]
        ELSE IF old = {}
        THEN [coll |-> Append(solutions, NewSolution(nextObjId, username, found.res)),
              crackmes |-> crackmes, err |-> "nil"]
        ELSE [coll |-> [solutions EXCEPT ![First(old)] =
                           NewSolution(solutions[First(old)].ObjectId, username, found.res)],
              crackmes |-> crackmes, err |-> "nil"]

\* SolutionCreate, had it inserted whatever the crackme lookup returned
SolutionCreateUnchecked(username, crackmehexid) ==
    LET found == CrackmeByHexId(crackmehexid)
    IN  IF connected
        THEN [coll |-> Append(solutions, NewSolution(nextObjId, username, found.res)),
              crackmes |-> crackmes, err |-> "nil"]
        ELSE [coll |-> solutions, crackmes |-> crackmes, err |-> "ErrUnavailable"]

\* model.SolutionCreate: the collections after the call, and the error returned
SolutionCreate(username, crackmehexid) ==
    LET found == CrackmeByHexId(crackmehexid)
        crackme == found.res
        objId == nextObjId
        solution == NewSolution(objId, username, crackme)
    IN  IF found.err # "nil"
        THEN [coll |-> solutions, crackmes |-> crackmes, err |-> standardizeError(found.err)]
        ELSE IF connected
        THEN [coll |-> Append(solutions, solution), crackmes |-> crackmes, err |-> "nil"]
        ELSE [coll |-> solutions, crackmes |-> crackmes, err |-> "ErrUnavailable"]

(***************************************************************************)
(* model: comment                                                          *)
(***************************************************************************)
\* model.CountCommentsByUser: filter {author}
CountCommentsByUser(username) ==
    IF connected
    THEN [nb |-> Cardinality({i \in Ix(comments) : comments[i].Author = username}),
          err |-> "nil"]
    ELSE [nb |-> 0, err |-> "ErrUnavailable"]

\* model.CountCommentsByCrackme: filter {crackmehexid, visible: true}
CountCommentsByCrackme(crackmehexid) ==
    IF connected
    THEN [nb |-> Cardinality({i \in Ix(comments) :
                     /\ comments[i].CrackMeHexId = crackmehexid
                     /\ comments[i].Visible}),
          err |-> "nil"]
    ELSE [nb |-> 0, err |-> "ErrUnavailable"]

\* model.CommentsByUser: Find {author, visible: true}, newest first
\* (the limit of 50 is above MaxRequests)
CommentsByUser(name) ==
    IF connected
    THEN LET Match(c) == c.Author = name /\ c.Visible
         IN  [res |-> Reverse(SelectSeq(comments, Match)), err |-> "nil"]
    ELSE [res |-> << >>, err |-> "ErrUnavailable"]

\* model.CommentsByCrackMe: Find {crackmehexid, visible: true}, oldest first
CommentsByCrackMe(crackmehexid) ==
    IF connected
    THEN LET Match(c) == c.CrackMeHexId = crackmehexid /\ c.Visible
         IN  [res |-> SelectSeq(comments, Match), err |-> "nil"]
    ELSE [res |-> << >>, err |-> "ErrUnavailable"]

\* The document CommentCreate builds
NewComment(objId, username, crackmehexid, crackme) ==
    [ObjectId     |-> objId,
     Author       |-> username,
     CrackMeHexId |-> crackmehexid,
     CrackmeName  |-> crackme.Name,
     Visible      |-> TRUE,
     Deleted      |-> FALSE]

\* CommentCreate, had it inserted the comment as awaiting moderation
CommentCreateHidden(username, crackmehexid) ==
    LET found == CrackmeByHexId(crackmehexid)
    IN  IF found.err # "nil" \/ ~connected
        THEN [coll |-> comments, crackmes |-> crackmes, err |-> "ErrUnavailable"]
        ELSE [coll |-> Append(comments,
                           [NewComment(nextObjId, username, crackmehexid, found.res)
                               EXCEPT !.Visible = FALSE]),
              crackmes |-> crackmes,
              err |-> "nil"]

\* model.CommentCreate: the collections after the call, and the error returned
CommentCreate(username, crackmehexid) ==
    LET found == CrackmeByHexId(crackmehexid)
        crackme == found.res
        objId == nextObjId
        comment == NewComment(objId, username, crackmehexid, crackme)
    IN  IF found.err # "nil"
        THEN [coll |-> comments, crackmes |-> crackmes, err |-> standardizeError(found.err)]
        ELSE IF connected
        THEN [coll |-> Append(comments, comment), crackmes |-> crackmes, err |-> "nil"]
        ELSE [coll |-> comments, crackmes |-> crackmes, err |-> "ErrUnavailable"]

\* model.NotificationAdd: the collection after the call, and the error returned
NotificationAdd(username, text) ==
    IF connected
    THEN [coll |-> Append(notifications, [Recipient |-> username, Text |-> text]),
          err |-> "nil"]
    ELSE [coll |-> notifications, err |-> "ErrUnavailable"]

(***************************************************************************)
(* model: user                                                             *)
(***************************************************************************)
\* User{}; the display counters are left out
EmptyUser ==
    [ObjectId |-> NilObjectID, HexId |-> Str0, Name |-> Str0, Email |-> Str0,
     Password |-> Str0, Visible |-> FALSE, Deleted |-> FALSE]

\* primitive.Regex{Pattern: "^" + pattern + "$", Options: "i"} applied to s,
\* for patterns of letters, digits, "@" and the metacharacter "."
RegexMatchI(pattern, s) ==
    /\ Len(pattern) = Len(s)
    /\ \A k \in 1..Len(s) : pattern[k] = "." \/ LowerChar(pattern[k]) = LowerChar(s[k])

\* model.CountUsers
CountUsers ==
    IF connected THEN [nb |-> Len(users), err |-> "nil"]
    ELSE [nb |-> 0, err |-> "ErrUnavailable"]

\* model.UserByName: FindOne {name: /^name$/i}
UserByName(name) ==
    IF connected
    THEN LET hit == {i \in Ix(users) : RegexMatchI(name, users[i].Name)}
         IN  IF hit = {} THEN [res |-> EmptyUser, err |-> standardizeError("ErrNoDocuments")]
             ELSE [res |-> users[First(hit)], err |-> "nil"]
    ELSE [res |-> EmptyUser, err |-> "ErrUnavailable"]

\* model.UserByMail: FindOne {email: /^email$/i}
UserByMail(email) ==
    IF connected
    THEN LET hit == {i \in Ix(users) : RegexMatchI(email, users[i].Email)}
         IN  IF hit = {} THEN [res |-> EmptyUser, err |-> standardizeError("ErrNoDocuments")]
             ELSE [res |-> users[First(hit)], err |-> "nil"]
    ELSE [res |-> EmptyUser, err |-> "ErrUnavailable"]

\* model.UserByHexId: FindOne {hexid}
UserByHexId(hexid) ==
    IF connected
    THEN LET hit == {i \in Ix(users) : users[i].HexId = hexid}
         IN  IF hit = {} THEN [res |-> EmptyUser, err |-> standardizeError("ErrNoDocuments")]
             ELSE [res |-> users[First(hit)], err |-> "nil"]
    ELSE [res |-> EmptyUser, err |-> "ErrUnavailable"]

\* model.UserCreate: the collection after the call, and the error returned
UserCreate(name, email, password) ==
    IF connected
    THEN [coll |-> Append(users,
                      [ObjectId |-> nextObjId, HexId |-> Hex(nextObjId), Name |-> name,
                       Email |-> email, Password |-> password,
                       Visible |-> TRUE, Deleted |-> FALSE]),
          err |-> "nil"]
    ELSE [coll |-> users, err |-> "ErrUnavailable"]

\* model.UpdateUserPassword: no connection check; UpdateOne {name: username}
\* is sent to the store, whose driver reports the failure when it is
\* unreachable
UpdateUserPassword(username, hashedPassword) ==
    IF username = Str0 THEN [coll |-> users, err |-> "ErrEmptyUsername", sent |-> FALSE]
    ELSE IF hashedPassword = Str0
    THEN [coll |-> users, err |-> "ErrEmptyPassword", sent |-> FALSE]
    ELSE IF ~connected THEN [coll |-> users, err |-> "ErrDriver", sent |-> TRUE]
    ELSE LET hit == {i \in Ix(users) : users[i].Name = username}
         IN  IF hit = {} THEN [coll |-> users, err |-> "ErrNoUserFound", sent |-> TRUE]
             ELSE [coll |-> [users EXCEPT ![First(hit)].Password = hashedPassword],
                   err |-> "nil", sent |-> TRUE]

(***************************************************************************)
(* controller: UploadSolutionPOST                                          *)
(***************************************************************************)
\* The ceiling of the size guard
MaxUploadSize == 5000000

Plus3 == <<"+", "+", "+">>

\* filename after filepath.Base and sanitize.Name
UploadFileName(filename) == SanitizeName(Base(filename))

\* UploadPath, had the handler joined the file name as uploaded and written
\* without the prefix check
UploadPathUnchecked(username, hexid, filename) ==
    [path |-> Join(GetSolutionPath, Chars(username) \o Plus3 \o hexid \o Plus3 \o filename),
     ok   |-> TRUE]

\* safePath, and whether the prefix check lets it through
UploadPath(username, hexid, filename) ==
    LET safePath == Join(GetSolutionPath,
                         Chars(username) \o Plus3 \o hexid \o Plus3 \o UploadFileName(filename))
    IN  [path |-> safePath,
         ok   |-> HasPrefix(Clean(safePath), GetSolutionPath \o <<"/">>)]

\* The locals of a request; dup and created are history: whether a live
\* solution of the author for the crackme existed when the request started,
\* and the HexId of the document the request's SolutionCreate inserted
IdleReq ==
    [username |-> "", hexidcrackme |-> Str0, filename |-> Str0, err |-> "nil",
     hexid |-> Str0, safePath |-> Str0, dup |-> FALSE, created |-> Str0]

\* What the last step showed: the task it ran for, the flash message it
\* added, and for the start of an upload the declared size of the file and
\* whether io.ReadAll read the payload
NoFlash == [task |-> "", msg |-> "none", size |-> 0, read |-> FALSE]

Flash(task, msg) == [NoFlash EXCEPT !.task = task, !.msg = msg]

\* A solution of this author for this crackme that is pending or approved
HasLiveSolution(username, crackmehexid) ==
    \E i \in Ix(solutions) :
        /\ solutions[i].Author = username
        /\ solutions[i].CrackmeHexId = crackmehexid
        /\ ~solutions[i].Deleted

\* UploadReject, had the handler read the payload before it checked the size
UploadRejectReadFirst(solution, captcha, hasFile, size, readOk) ==
    IF solution # EmptySolution THEN [msg |-> "AlreadySubmitted", read |-> FALSE]
    ELSE IF ~captcha THEN [msg |-> "RecaptchaInvalid", read |-> FALSE]
    ELSE IF ~hasFile THEN [msg |-> "FieldMissing", read |-> FALSE]
    ELSE IF ~readOk THEN [msg |-> "ReadError", read |-> TRUE]
    ELSE IF size > MaxUploadSize THEN [msg |-> "TooLarge", read |-> TRUE]
    ELSE [msg |-> "none", read |-> TRUE]

\* The checks of the handler in their order: the duplicate check, the
\* captcha, the form file, the size guard, then io.ReadAll; the refusal, if
\* any, and whether the payload was read
UploadReject(solution, captcha, hasFile, size, readOk) ==
    IF solution # EmptySolution THEN [msg |-> "AlreadySubmitted", read |-> FALSE]
    ELSE IF ~captcha THEN [msg |-> "RecaptchaInvalid", read |-> FALSE]
    ELSE IF ~hasFile THEN [msg |-> "FieldMissing", read |-> FALSE]
    ELSE IF size > MaxUploadSize THEN [msg |-> "TooLarge", read |-> FALSE]
    ELSE IF ~readOk THEN [msg |-> "ReadError", read |-> TRUE]
    ELSE [msg |-> "none", read |-> TRUE]

\* From the start of the handler to io.ReadAll: the duplicate check, the
\* captcha, the form file and the size guard
UploadBegin(p, username, hexidcrackme, filename, captcha, hasFile, size, readOk) ==
    /\ pc[p] = "idle"
    /\ served < MaxRequests
    /\ LET solution == SolutionsByUserAndCrackMe(username, hexidcrackme).res
           reject == UploadReject(solution, captcha, hasFile, size, readOk)
       IN  /\ flash' = [task |-> p, msg |-> reject.msg, size |-> size, read |-> reject.read]
           /\ IF reject.msg # "none"
              THEN UNCHANGED <<pc, req, served>>
              ELSE /\ pc' = [pc EXCEPT ![p] = "create"]
                   /\ req' = [req EXCEPT ![p] =
                                [IdleReq EXCEPT !.username = username,
                                                !.hexidcrackme = hexidcrackme,
                                                !.filename = filename,
                                                !.dup = HasLiveSolution(username, hexidcrackme)]]
                   /\ served' = served + 1
    /\ UNCHANGED userVars
    /\ UNCHANGED repair
    /\ UNCHANGED <<connected, nextObjId, crackmes, solutions, comments, notifications,
                   files, env, config, commentPc, commentReq, approved>>

\* err = model.SolutionCreate(info, username, hexidcrackme)
UploadCreate(p) ==
    /\ pc[p] = "create"
    /\ LET r == SolutionCreate(req[p].username, req[p].hexidcrackme)
       IN  /\ solutions' = r.coll
           /\ crackmes' = r.crackmes
           /\ nextObjId' = IF r.err = "nil" THEN nextObjId + 1 ELSE nextObjId
           /\ req' = [req EXCEPT ![p].err = r.err,
                                 ![p].created = IF r.err = "nil" THEN Hex(nextObjId) ELSE Str0]
    /\ pc' = [pc EXCEPT ![p] = "lookup"]
    /\ flash' = NoFlash
    /\ UNCHANGED userVars
    /\ UNCHANGED repair
    /\ UNCHANGED <<connected, comments, notifications, files, env, config,
                   commentPc, commentReq, served, approved>>

\* solution, _ = model.SolutionsByUserAndCrackMe(...); the error of
\* SolutionCreate is logged; the path is built and checked
UploadLookup(p) ==
    /\ pc[p] = "lookup"
    /\ LET solution == SolutionsByUserAndCrackMe(req[p].username, req[p].hexidcrackme).res
           up == UploadPath(req[p].username, solution.HexId, req[p].filename)
       IN  IF up.ok
           THEN /\ pc' = [pc EXCEPT ![p] = "write"]
                /\ req' = [req EXCEPT ![p].hexid = solution.HexId,
                                      ![p].safePath = up.path]
                /\ flash' = NoFlash
           ELSE /\ pc' = [pc EXCEPT ![p] = "idle"]
                /\ req' = [req EXCEPT ![p] = IdleReq]
                /\ flash' = Flash(p, "InvalidPath")
    /\ UNCHANGED userVars
    /\ UNCHANGED repair
    /\ UNCHANGED <<connected, nextObjId, crackmes, solutions, comments, notifications,
                   files, env, config, commentPc, commentReq, served, approved>>

\* UploadWrite, had a failed write removed the solution the request inserted
UploadWriteRollback(p, written) ==
    /\ pc[p] = "write"
    /\ IF written
       THEN /\ files' = files \cup {req[p].safePath}
            /\ pc' = [pc EXCEPT ![p] = "notify"]
            /\ flash' = NoFlash
            /\ UNCHANGED <<req, solutions>>
       ELSE /\ pc' = [pc EXCEPT ![p] = "idle"]
            /\ req' = [req EXCEPT ![p] = IdleReq]
            /\ flash' = Flash(p, "ServerError")
            /\ solutions' = LET Kept(s) == s.HexId # req[p].created
                            IN  SelectSeq(solutions, Kept)
            /\ UNCHANGED files
    /\ UNCHANGED userVars
    /\ UNCHANGED repair
    /\ UNCHANGED <<connected, nextObjId, crackmes, comments, notifications,
                   env, config, commentPc, commentReq, served, approved>>

\* err = os.WriteFile(safePath, data, 0666); the write may fail
UploadWrite(p, written) ==
    /\ pc[p] = "write"
    /\ IF written
       THEN /\ files' = files \cup {req[p].safePath}
            /\ pc' = [pc EXCEPT ![p] = "notify"]
            /\ flash' = NoFlash
            /\ UNCHANGED req
       ELSE /\ pc' = [pc EXCEPT ![p] = "idle"]
            /\ req' = [req EXCEPT ![p] = IdleReq]
            /\ flash' = Flash(p, "ServerError")
            /\ UNCHANGED files
    /\ UNCHANGED userVars
    /\ UNCHANGED repair
    /\ UNCHANGED <<connected, nextObjId, crackmes, solutions, comments, notifications,
                   env, config, commentPc, commentReq, served, approved>>

\* UploadRecipients, had the handler notified the crackme's author
UploadRecipientsAuthor(found, username) ==
    IF found.err = "nil" THEN <<found.res.Author>> ELSE << >>

\* Whom the handler notifies of the upload: the submitter, if the crackme
\* lookup succeeds
UploadRecipients(found, username) ==
    IF found.err = "nil" THEN <<username>> ELSE << >>

\* The notification to the submitter, then the success flash; delivered is
\* whether the store is still reachable when NotificationAdd runs
UploadNotify(p, delivered) ==
    /\ pc[p] = "notify"
    /\ LET found == CrackmeByHexId(req[p].hexidcrackme)
           text == [Kind |-> "waiting", CrackmeName |-> found.res.Name, By |-> ""]
           to == UploadRecipients(found, req[p].username)
       IN  notifications' = IF to # << >> /\ delivered
                            THEN NotificationAdd(to[1], text).coll
                            ELSE notifications
    /\ pc' = [pc EXCEPT ![p] = "idle"]
    /\ req' = [req EXCEPT ![p] = IdleReq]
    /\ flash' = Flash(p, "Uploaded")
    /\ UNCHANGED userVars
    /\ UNCHANGED repair
    /\ UNCHANGED <<connected, nextObjId, crackmes, solutions, comments, files, env,
                   config, commentPc, commentReq, served, approved>>

(***************************************************************************)
(* controller: LeaveCommentPOST                                            *)
(***************************************************************************)
IdleComment == [username |-> "", crackmehexid |-> Str0]

\* From the start of the handler to the return of model.CommentCreate
CommentBegin(username, crackmehexid, valid, captcha) ==
    /\ commentPc = "idle"
    /\ served < MaxRequests
    /\ LET r == CommentCreate(username, crackmehexid)
           reject == IF ~valid THEN "FieldMissing"
                     ELSE IF ~captcha THEN "RecaptchaInvalid"
                     ELSE IF r.err # "nil" THEN "CreateFailed"
                     ELSE "none"
       IN  IF reject # "none"
           THEN /\ flash' = Flash("lc", reject)
                /\ UNCHANGED <<comments, crackmes, nextObjId, commentPc, commentReq, served>>
           ELSE /\ comments' = r.coll
                /\ crackmes' = r.crackmes
                /\ nextObjId' = nextObjId + 1
                /\ commentPc' = "notify"
                /\ commentReq' = [username |-> username, crackmehexid |-> crackmehexid]
                /\ served' = served + 1
                /\ flash' = NoFlash
    /\ UNCHANGED userVars
    /\ UNCHANGED repair
    /\ UNCHANGED <<connected, solutions, notifications, files, env, config, pc, req,
                   approved>>

\* CommentRecipients, had the handler notified the author of every comment,
\* the author's own included
CommentRecipientsAlways(found, username) ==
    IF found.err = "nil" THEN <<found.res.Author>> ELSE << >>

\* Whom the handler notifies of the comment: the crackme's author, if the
\* crackme lookup succeeds and the author is not the commenter
CommentRecipients(found, username) ==
    IF found.err = "nil" /\ found.res.Author # username
    THEN <<found.res.Author>> ELSE << >>

\* CommentNotify, had the handler undone the comment and reported a failure
\* when the notification could not be delivered
CommentNotifyRollback(delivered) ==
    /\ commentPc = "notify"
    /\ LET found == CrackmeByHexId(commentReq.crackmehexid)
           text == [Kind |-> "comment", CrackmeName |-> found.res.Name,
                    By |-> commentReq.username]
           sent == found.err = "nil" /\ delivered
       IN  /\ notifications' = IF sent /\ found.res.Author # commentReq.username
                               THEN NotificationAdd(found.res.Author, text).coll
                               ELSE notifications
           /\ comments' = IF sent THEN comments ELSE SubSeq(comments, 1, Len(comments) - 1)
           /\ flash' = Flash("lc", IF sent THEN "Uploaded" ELSE "CreateFailed")
    /\ commentPc' = "idle"
    /\ commentReq' = IdleComment
    /\ UNCHANGED userVars
    /\ UNCHANGED repair
    /\ UNCHANGED <<connected, nextObjId, crackmes, solutions, files, env,
                   config, pc, req, served, approved>>

\* The notification to the crackme's author, then the success flash;
\* delivered is whether the store is still reachable when NotificationAdd runs
CommentNotify(delivered) ==
    /\ commentPc = "notify"
    /\ LET found == CrackmeByHexId(commentReq.crackmehexid)
           text == [Kind |-> "comment", CrackmeName |-> found.res.Name,
                    By |-> commentReq.username]
           to == CommentRecipients(found, commentReq.username)
       IN  notifications' = IF to # << >> /\ delivered
                            THEN NotificationAdd(to[1], text).coll
                            ELSE notifications
    /\ commentPc' = "idle"
    /\ commentReq' = IdleComment
    /\ flash' = Flash("lc", "Uploaded")
    /\ UNCHANGED userVars
    /\ UNCHANGED repair
    /\ UNCHANGED <<connected, nextObjId, crackmes, solutions, comments, files, env,
                   config, pc, req, served, approved>>

(***************************************************************************)
(* controller: RegisterPOST and ResetPasswordWithCurrentPOST               *)
(***************************************************************************)
MinPasswordLen == 8

\* The password of every registration form
RegisteredPassword == <<"p">>

\* passhash.HashString and passhash.MatchString, the salt left out
HashString(password) == <<"$">> \o password

MatchString(hash, password) == hash = HashString(password)

\* The locals of a registration or password change: the name and email, the
\* hashed password to store, and for a password change the three form values
IdleUser ==
    [kind |-> "", name |-> Str0, email |-> Str0, password |-> Str0,
     currentPassword |-> Str0, newPassword |-> Str0, newPasswordVerify |-> Str0]

\* RegisterPOST up to the two lookups: the form, the captcha, the allowed
\* characters, the password hash, then UserByMail and UserByName
RegisterBegin(p, name, formEmail, valid, captcha, authorized, hashOk) ==
    /\ userPc[p] = "idle"
    /\ served < MaxRequests
    /\ LET email == ToLower(formEmail)
           errmail == UserByMail(email).err
           err == UserByName(name).err
           reject == IF ~valid THEN "FieldMissing"
                     ELSE IF ~captcha THEN "RecaptchaInvalid"
                     ELSE IF ~authorized THEN "NonAllowedChars"
                     ELSE IF ~hashOk THEN "ServerError"
                     ELSE IF errmail # "ErrNoResult" THEN "EmailExists"
                     ELSE IF err = "ErrNoResult" THEN "none"
                     ELSE IF err # "nil" THEN "ServerError"
                     ELSE "NameExists"
       IN  IF reject # "none"
           THEN /\ flash' = Flash(p, reject)
                /\ UNCHANGED <<userPc, userReq, served>>
           ELSE /\ userPc' = [userPc EXCEPT ![p] = "create"]
                /\ userReq' = [userReq EXCEPT ![p] =
                                 [IdleUser EXCEPT !.kind = "register", !.name = name,
                                                  !.email = email,
                                                  !.password = HashString(RegisteredPassword)]]
                /\ served' = served + 1
                /\ flash' = NoFlash
    /\ UNCHANGED <<connected, nextObjId, crackmes, solutions, comments, notifications,
                   files, env, config, pc, req, commentPc, commentReq, approved, users>>
    /\ UNCHANGED repair

\* ex := model.UserCreate(name, email, password)
RegisterCreate(p) ==
    /\ userPc[p] = "create"
    /\ LET ex == UserCreate(userReq[p].name, userReq[p].email, userReq[p].password)
       IN  /\ users' = ex.coll
           /\ nextObjId' = IF ex.err = "nil" THEN nextObjId + 1 ELSE nextObjId
           /\ flash' = Flash(p, IF ex.err = "nil" THEN "AccountCreated" ELSE "ServerError")
    /\ userPc' = [userPc EXCEPT ![p] = "idle"]
    /\ userReq' = [userReq EXCEPT ![p] = IdleUser]
    /\ UNCHANGED <<connected, crackmes, solutions, comments, notifications, files, env,
                   config, pc, req, commentPc, commentReq, served, approved>>
    /\ UNCHANGED repair

\* ResetBegin, had it not verified the current password
ResetBeginNoCurrent(p, username, currentPassword, newPassword, newPasswordVerify, hashOk) ==
    /\ userPc[p] = "idle"
    /\ served < MaxRequests
    /\ LET found == UserByName(username)
           reject == IF username = Str0 THEN "NotLoggedIn"
                     ELSE IF newPassword = Str0 \/ newPasswordVerify = Str0 THEN "EmptyField"
                     ELSE IF newPassword # newPasswordVerify THEN "Mismatch"
                     ELSE IF Len(newPassword) < MinPasswordLen THEN "TooShort"
                     ELSE IF found.err # "nil" THEN "UserNotFound"
                     ELSE IF ~hashOk THEN "HashError"
                     ELSE "none"
       IN  IF reject # "none"
           THEN /\ flash' = Flash(p, reject)
                /\ UNCHANGED <<userPc, userReq, served>>
           ELSE /\ userPc' = [userPc EXCEPT ![p] = "update"]
                /\ userReq' = [userReq EXCEPT ![p] =
                                 [IdleUser EXCEPT !.kind = "reset", !.name = username,
                                                  !.password = HashString(newPassword),
                                                  !.currentPassword = currentPassword,
                                                  !.newPassword = newPassword,
                                                  !.newPasswordVerify = newPasswordVerify]]
                /\ served' = served + 1
                /\ flash' = NoFlash
    /\ UNCHANGED <<connected, nextObjId, crackmes, solutions, comments, notifications,
                   files, env, config, pc, req, commentPc, commentReq, approved, users>>
    /\ UNCHANGED repair

\* ResetPasswordWithCurrentPOST up to the hash of the new password
ResetBegin(p, username, currentPassword, newPassword, newPasswordVerify, hashOk) ==
    /\ userPc[p] = "idle"
    /\ served < MaxRequests
    /\ LET found == UserByName(username)
           reject == IF username = Str0 THEN "NotLoggedIn"
                     ELSE IF newPassword = Str0 \/ newPasswordVerify = Str0 THEN "EmptyField"
                     ELSE IF newPassword # newPasswordVerify THEN "Mismatch"
                     ELSE IF Len(newPassword) < MinPasswordLen THEN "TooShort"
                     ELSE IF found.err # "nil" THEN "UserNotFound"
                     ELSE IF ~MatchString(found.res.Password, currentPassword)
                     THEN "WrongPassword"
                     ELSE IF ~hashOk THEN "HashError"
                     ELSE "none"
       IN  IF reject # "none"
           THEN /\ flash' = Flash(p, reject)
                /\ UNCHANGED <<userPc, userReq, served>>
           ELSE /\ userPc' = [userPc EXCEPT ![p] = "update"]
                /\ userReq' = [userReq EXCEPT ![p] =
                                 [IdleUser EXCEPT !.kind = "reset", !.name = username,
                                                  !.password = HashString(newPassword),
                                                  !.currentPassword = currentPassword,
                                                  !.newPassword = newPassword,
                                                  !.newPasswordVerify = newPasswordVerify]]
                /\ served' = served + 1
                /\ flash' = NoFlash
    /\ UNCHANGED <<connected, nextObjId, crackmes, solutions, comments, notifications,
                   files, env, config, pc, req, commentPc, commentReq, approved, users>>
    /\ UNCHANGED repair

\* err = model.UpdateUserPassword(username, hashedNewPassword)
ResetUpdate(p) ==
    /\ userPc[p] = "update"
    /\ LET r == UpdateUserPassword(userReq[p].name, userReq[p].password)
       IN  /\ users' = r.coll
           /\ flash' = Flash(p, IF r.err = "nil" THEN "PasswordUpdated" ELSE "UpdateFailed")
    /\ userPc' = [userPc EXCEPT ![p] = "idle"]
    /\ userReq' = [userReq EXCEPT ![p] = IdleUser]
    /\ UNCHANGED <<connected, nextObjId, crackmes, solutions, comments, notifications,
                   files, env, config, pc, req, commentPc, commentReq, served, approved>>
    /\ UNCHANGED repair

\* UserGET: the lookup by the :name parameter, then the per-user lookups
\* with the name as stored; the crackme lists of the page are left out.
\* The handler only reads, and is taken in one state of the store.
UserGET(name) ==
    LET found == UserByName(name)
        actualUsername == found.res.Name
        nbSolutions == CountSolutionsByUser(actualUsername)
        nbComments == CountCommentsByUser(actualUsername)
        sols == SolutionsByUser(actualUsername)
        coms == CommentsByUser(actualUsername)
    IN  IF found.err # "nil"
        THEN [status |-> 404, username |-> "", NbSolutions |-> 0, NbComments |-> 0,
              solutions |-> << >>, comments |-> << >>]
        ELSE IF nbSolutions.err # "nil" \/ nbComments.err # "nil"
                \/ sols.err # "nil" \/ coms.err # "nil"
        THEN [status |-> 500, username |-> "", NbSolutions |-> 0, NbComments |-> 0,
              solutions |-> << >>, comments |-> << >>]
        ELSE [status |-> 200, username |-> actualUsername,
              NbSolutions |-> nbSolutions.nb, NbComments |-> nbComments.nb,
              solutions |-> sols.res, comments |-> coms.res]

(***************************************************************************)
(* Moderation: the Approve and Delete transitions                          *)
(***************************************************************************)
\* model.SolutionApprove: Pending -> Visible, then one increment of the
\* owning crackme's NbSolutions
SolutionApprove(hexid) ==
    /\ connected
    /\ \E i \in Ix(solutions) :
        /\ solutions[i].HexId = hexid
        /\ ~solutions[i].Visible
        /\ ~solutions[i].Deleted
        /\ solutions' = [solutions EXCEPT ![i].Visible = TRUE]
        /\ crackmes' = CrackmeIncrementSolutions(crackmes, solutions[i].CrackmeHexId)
        /\ approved' = approved \cup {solutions[i].ObjectId}
    /\ flash' = NoFlash
    /\ UNCHANGED userVars
    /\ UNCHANGED repair
    /\ UNCHANGED <<connected, nextObjId, comments, notifications, files, env, config,
                   pc, req, commentPc, commentReq, served>>

\* Delete of a solution: Visible | Pending -> Deleted, counters untouched
SolutionDelete(hexid) ==
    /\ connected
    /\ \E i \in Ix(solutions) :
        /\ solutions[i].HexId = hexid
        /\ ~solutions[i].Deleted
        /\ solutions' = [solutions EXCEPT ![i].Deleted = TRUE]
    /\ flash' = NoFlash
    /\ UNCHANGED userVars
    /\ UNCHANGED repair
    /\ UNCHANGED <<connected, nextObjId, crackmes, comments, notifications, files, env,
                   config, pc, req, commentPc, commentReq, served, approved>>

\* Delete of a comment: Visible -> Deleted, counters untouched
CommentDelete(objId) ==
    /\ connected
    /\ \E i \in Ix(comments) :
        /\ comments[i].ObjectId = objId
        /\ ~comments[i].Deleted
        /\ comments' = [comments EXCEPT ![i].Deleted = TRUE]
    /\ flash' = NoFlash
    /\ UNCHANGED userVars
    /\ UNCHANGED repair
    /\ UNCHANGED <<connected, nextObjId, crackmes, solutions, notifications, files, env,
                   config, pc, req, commentPc, commentReq, served, approved>>

\* Delete of a crackme: Visible | Pending -> Deleted
CrackmeDelete(hexid) ==
    /\ connected
    /\ \E i \in Ix(crackmes) :
        /\ crackmes[i].HexId = hexid
        /\ ~crackmes[i].Deleted
        /\ crackmes' = [crackmes EXCEPT ![i].Deleted = TRUE]
    /\ flash' = NoFlash
    /\ UNCHANGED userVars
    /\ UNCHANGED repair
    /\ UNCHANGED <<connected, nextObjId, solutions, comments, notifications, files, env,
                   config, pc, req, commentPc, commentReq, served, approved>>

\* populate_counts.py: for every crackme, count its visible solutions and
\* comments and overwrite the two counters
RECURSIVE PopulateFrom(_, _)
PopulateFrom(cs, i) ==
    IF i > Len(cs) THEN cs
    ELSE PopulateFrom(
            CrackmeSetCounts(cs, cs[i].HexId,
                Cardinality({j \in Ix(solutions) :
                    solutions[j].CrackmeId = cs[i].ObjectId /\ solutions[j].Visible}),
                Cardinality({j \in Ix(comments) :
                    comments[j].CrackMeHexId = cs[i].HexId /\ comments[j].Visible})),
            i + 1)

PopulateCounts ==
    /\ connected
    /\ crackmes' = PopulateFrom(crackmes, 1)
    /\ flash' = NoFlash
    /\ UNCHANGED userVars
    /\ UNCHANGED repair
    /\ UNCHANGED <<connected, nextObjId, solutions, comments, notifications, files, env,
                   config, pc, req, commentPc, commentReq, served, approved>>

\* storage.init: config = Configure(), once, before any handler runs
StorageInit ==
    /\ config = ZeroInfo
    /\ config' = Configure(env)
    /\ flash' = NoFlash
    /\ UNCHANGED userVars
    /\ UNCHANGED repair
    /\ UNCHANGED <<connected, nextObjId, crackmes, solutions, comments, notifications,
                   files, env, pc, req, commentPc, commentReq, served, approved>>

\* The environment of the running process is changed
Setenv(e) ==
    /\ config # ZeroInfo
    /\ env' = e
    /\ env' # env
    /\ flash' = NoFlash
    /\ UNCHANGED userVars
    /\ UNCHANGED repair
    /\ UNCHANGED <<connected, nextObjId, crackmes, solutions, comments, notifications,
                   files, config, pc, req, commentPc, commentReq, served, approved>>

\* populate_counts.py step by step, beside the running application: the
\* script is at rest, about to count the children of crackme idx, or about
\* to update crackme idx with the counts it has taken
IdleRepair == [pc |-> "idle", idx |-> 0, nbsolutions |-> 0, nbcomments |-> 0]

\* Step 3 for one crackme: count its visible solutions and comments
RepairCount ==
    /\ connected
    /\ repair.pc \in {"idle", "count"}
    /\ crackmes # << >>
    /\ LET i == IF repair.pc = "idle" THEN 1 ELSE repair.idx
       IN  repair' =
             [pc |-> "set", idx |-> i,
              nbsolutions |-> Cardinality({j \in Ix(solutions) :
                  solutions[j].CrackmeId = crackmes[i].ObjectId /\ solutions[j].Visible}),
              nbcomments |-> Cardinality({j \in Ix(comments) :
                  comments[j].CrackMeHexId = crackmes[i].HexId /\ comments[j].Visible})]
    /\ flash' = NoFlash
    /\ UNCHANGED userVars
    /\ UNCHANGED <<connected, nextObjId, crackmes, solutions, comments, notifications,
                   files, env, config, pc, req, commentPc, commentReq, served, approved>>

\* RepairSet, had the counts been taken in the same store operation as the
\* update
RepairSetRecount ==
    /\ connected
    /\ repair.pc = "set"
    /\ crackmes' = CrackmeSetCounts(crackmes, crackmes[repair.idx].HexId,
                      Cardinality({j \in Ix(solutions) :
                          /\ solutions[j].CrackmeId = crackmes[repair.idx].ObjectId
                          /\ solutions[j].Visible}),
                      Cardinality({j \in Ix(comments) :
                          /\ comments[j].CrackMeHexId = crackmes[repair.idx].HexId
                          /\ comments[j].Visible}))
    /\ repair' = IF repair.idx < Len(crackmes)
                 THEN [IdleRepair EXCEPT !.pc = "count", !.idx = repair.idx + 1]
                 ELSE IdleRepair
    /\ flash' = NoFlash
    /\ UNCHANGED userVars
    /\ UNCHANGED <<connected, nextObjId, solutions, comments, notifications, files, env,
                   config, pc, req, commentPc, commentReq, served, approved>>

\* Step 4 for one crackme: update the crackme with the counts taken, then
\* go on to the next crackme
RepairSet ==
    /\ connected
    /\ repair.pc = "set"
    /\ crackmes' = CrackmeSetCounts(crackmes, crackmes[repair.idx].HexId,
                                    repair.nbsolutions, repair.nbcomments)
    /\ repair' = IF repair.idx < Len(crackmes)
                 THEN [IdleRepair EXCEPT !.pc = "count", !.idx = repair.idx + 1]
                 ELSE IdleRepair
    /\ flash' = NoFlash
    /\ UNCHANGED userVars
    /\ UNCHANGED <<connected, nextObjId, solutions, comments, notifications, files, env,
                   config, pc, req, commentPc, commentReq, served, approved>>

\* The store becomes unreachable, or reachable again
ToggleConnection ==
    /\ connected' = ~connected
    /\ flash' = NoFlash
    /\ UNCHANGED userVars
    /\ UNCHANGED repair
    /\ UNCHANGED <<nextObjId, crackmes, solutions, comments, notifications, files, env,
                   config, pc, req, commentPc, commentReq, served, approved>>

(***************************************************************************)
(* Inputs                                                                  *)
(***************************************************************************)
\* The :hexidcrackme / :hexid route parameter: the two crackmes and a value
\* that is no crackme's hex id
CrackmeHexInputs == {Hex(1), Hex(2), <<"z", "z">>}

\* Uploaded file names of the request specifications
UploadNames == {<<"a">>, <<".", ".", "/", "b">>}

\* An accepted form, and one form for each way the handler refuses one
Forms ==
    {[captcha |-> TRUE, hasFile |-> TRUE, size |-> MaxUploadSize, readOk |-> TRUE],
     [captcha |-> FALSE, hasFile |-> TRUE, size |-> MaxUploadSize, readOk |-> TRUE],
     [captcha |-> TRUE, hasFile |-> FALSE, size |-> MaxUploadSize, readOk |-> TRUE],
     [captcha |-> TRUE, hasFile |-> TRUE, size |-> MaxUploadSize + 1, readOk |-> TRUE],
     [captcha |-> TRUE, hasFile |-> TRUE, size |-> MaxUploadSize, readOk |-> FALSE]}

\* Uploaded file names of the path specification: every string of at most
\* MaxNameLen characters of PathAlphabet, and the example of the specification
PathAlphabet == {"a", ".", "/"}

EtcPasswd == <<".", ".", "/", ".", ".", "/", "e", "t", "c", "/", "p", "a", "s", "s", "w", "d">>

\* Names with a separator of sanitize, a space, an upper-case letter, an
\* illegal character; two names of allowed characters only, one with an
\* upper-case letter and one with two dashes in a row
PathExamples ==
    {EtcPasswd,
     <<"s", "o", "l", "+", "+", "+", "_", "A", ".", "a">>,
     <<" ", ".", ".", " ">>,
     <<"/", ".", ".", "/", "~", ".", ".", "/", "a", " ">>,
     <<"A", ".", "a">>,
     <<"a", "-", "-", "a">>}

PathNames == UNION {[1..n -> PathAlphabet] : n \in 0..MaxNameLen} \cup PathExamples

\* Values of SOLUTION_STORAGE_PATH: unset, an absolute root, and a root
\* written with a trailing separator
PathRoots == {Str0, <<"/", "d">>, <<"d", "/">>}

\* User names and emails that differ in case only ("Elvis" and "elvis" cut to
\* two letters), another user, and for lookups a name that is a pattern
UserNames == {<<"e", "l">>, <<"E", "l">>, <<"a", "l">>}

UserEmails == {<<"e", "@", "x">>, <<"E", "@", "x">>, <<"a", "@", "x">>}

LookupNames == UserNames \cup {<<".", "l">>, <<"e">>}

LookupEmails == UserEmails \cup {<<"e", "@">>}

\* A new password of MinPasswordLen characters and one that is too short
LongPassword == <<"n", "n", "n", "n", "n", "n", "n", "n">>

ShortPassword == <<"n", "n", "n", "n", "n", "n", "n">>

PasswordInputs == {Str0, ShortPassword, LongPassword}

(***************************************************************************)
(* Specifications                                                          *)
(***************************************************************************)
InitStore ==
    /\ connected = TRUE
    /\ nextObjId = 3
    /\ crackmes = <<MockCrackme(1, "cm1", "alice"), MockCrackme(2, "cm2", "bob")>>
    /\ solutions = << >>
    /\ comments = << >>
    /\ notifications = << >>
    /\ files = {}
    /\ pc = [p \in Procs |-> "idle"]
    /\ req = [p \in Procs |-> IdleReq]
    /\ commentPc = "idle"
    /\ commentReq = IdleComment
    /\ flash = NoFlash
    /\ served = 0
    /\ approved = {}
    /\ users = << >>
    /\ userPc = [p \in Procs |-> "idle"]
    /\ userReq = [p \in Procs |-> IdleUser]
    /\ repair = IdleRepair

Init ==
    /\ InitStore
    /\ env = [CRACKME_STORAGE_PATH |-> Str0, SOLUTION_STORAGE_PATH |-> Str0]
    /\ config = Configure(env)

\* UploadSolutionPOST, run by the tasks of P for the users of U on the
\* crackme parameters of C with the file names of F
UploadBy(P, U, C, F) ==
    \/ \E p \in P, u \in U, c \in C, f \in F, form \in Forms :
            UploadBegin(p, u, c, f, form.captcha, form.hasFile, form.size, form.readOk)
    \/ \E p \in P : UploadCreate(p)
    \/ \E p \in P : UploadLookup(p)
    \/ \E p \in P, written \in BOOLEAN : UploadWrite(p, written)
    \/ \E p \in P, delivered \in BOOLEAN : UploadNotify(p, delivered)

\* LeaveCommentPOST, for the users of U on the crackme parameters of C
LeaveCommentBy(U, C) ==
    \/ \E u \in U, c \in C, valid \in BOOLEAN, captcha \in BOOLEAN :
            CommentBegin(u, c, valid, captcha)
    \/ \E delivered \in BOOLEAN : CommentNotify(delivered)

Approve == \E i \in Ix(solutions) : SolutionApprove(solutions[i].HexId)

DeleteSolution == \E i \in Ix(solutions) : SolutionDelete(solutions[i].HexId)

DeleteComment == \E i \in Ix(comments) : CommentDelete(comments[i].ObjectId)

DeleteCrackme == \E i \in Ix(crackmes) : CrackmeDelete(crackmes[i].HexId)

\* Creations and approvals only: uploads by bob, one at a time, comments
\* by both users, on either crackme or on a hex id that is no crackme's
NextNoDelete ==
    \/ UploadBy({"t1"}, {"bob"}, CrackmeHexInputs, {<<"a">>})
    \/ LeaveCommentBy(Users, CrackmeHexInputs)
    \/ Approve
    \/ ToggleConnection

Next == NextNoDelete \/ DeleteSolution \/ DeleteComment

Spec == Init /\ [][Next]_vars

SpecNoDelete == Init /\ [][NextNoDelete]_vars

\* Two uploads at a time, by one author for one crackme
NextRace ==
    \/ UploadBy(Procs, {"bob"}, {Hex(1)}, UploadNames)
    \/ Approve
    \/ DeleteSolution

SpecRace == Init /\ [][NextRace]_vars

\* Every transition of the lifecycle, the crackme's included, and the repair
\* run, on one crackme
NextLifecycle ==
    \/ UploadBy({"t1"}, {"bob"}, {Hex(1)}, {<<"a">>})
    \/ LeaveCommentBy({"bob"}, {Hex(1)})
    \/ Approve
    \/ DeleteSolution
    \/ DeleteComment
    \/ DeleteCrackme
    \/ PopulateCounts
    \/ ToggleConnection

SpecLifecycle == Init /\ [][NextLifecycle]_vars

\* RegisterPOST, run by the tasks of P with the names of N and the emails of E
RegisterBy(P, N, E) ==
    \/ \E p \in P, n \in N, e \in E, ok \in {"ok", "form", "captcha", "chars", "hash"} :
            RegisterBegin(p, n, e, ok # "form", ok # "captcha", ok # "chars", ok # "hash")
    \/ \E p \in P : RegisterCreate(p)

\* ResetPasswordWithCurrentPOST, run by the tasks of P for the session names of N
ResetBy(P, N) ==
    \/ \E p \in P, n \in N \cup {Str0}, cur \in {RegisteredPassword, LongPassword},
          new \in PasswordInputs, verify \in PasswordInputs, hashOk \in BOOLEAN :
            ResetBegin(p, n, cur, new, verify, hashOk)
    \/ \E p \in P : ResetUpdate(p)

\* Registrations and password changes, one request at a time
NextUsers ==
    \/ RegisterBy({"t1"}, UserNames, UserEmails)
    \/ ResetBy({"t1"}, UserNames)
    \/ ToggleConnection

SpecUsers == Init /\ [][NextUsers]_vars

\* One upload, with every file name of PathNames, under every root of
\* PathRoots
InitPath ==
    /\ InitStore
    /\ env \in [CRACKME_STORAGE_PATH : {Str0}, SOLUTION_STORAGE_PATH : PathRoots]
    /\ config = Configure(env)

NextPath ==
    \/ /\ served = 0
       /\ \E f \in PathNames :
            UploadBegin("t1", "alice", Hex(1), f, TRUE, TRUE, MaxUploadSize, TRUE)
    \/ UploadCreate("t1")
    \/ UploadLookup("t1")
    \/ \E written \in BOOLEAN : UploadWrite("t1", written)
    \/ \E delivered \in BOOLEAN : UploadNotify("t1", delivered)

SpecPath == InitPath /\ [][NextPath]_vars

\* The process from its start: every pair of values of the two environment
\* variables, storage.init, then uploads
EnvInputs == [CRACKME_STORAGE_PATH : PathRoots, SOLUTION_STORAGE_PATH : PathRoots]

InitStorage ==
    /\ InitStore
    /\ env \in EnvInputs
    /\ config = ZeroInfo

NextStorage ==
    \/ StorageInit
    \/ /\ config # ZeroInfo
       /\ UploadBy({"t1"}, {"bob"}, {Hex(1)}, {<<"a">>})

SpecStorage == InitStorage /\ [][NextStorage]_vars

\* The same with the environment variables changed while the process runs
NextSetenv ==
    \/ NextStorage
    \/ \E e \in EnvInputs : Setenv(e)

SpecSetenv == InitStorage /\ [][NextSetenv]_vars

\* Two registrations at a time
NextRegisterRace == RegisterBy(Procs, UserNames, UserEmails)

SpecRegisterRace == Init /\ [][NextRegisterRace]_vars

\* The repair run beside uploads, comments, approvals and deletions on one
\* crackme
NextRepairRace ==
    \/ UploadBy({"t1"}, {"bob"}, {Hex(1)}, {<<"a">>})
    \/ LeaveCommentBy({"bob"}, {Hex(1)})
    \/ Approve
    \/ DeleteSolution
    \/ RepairCount
    \/ RepairSet

SpecRepairRace == Init /\ [][NextRepairRace]_vars

\* Uploads and registrations side by side, with the operations that rewrite
\* existing solutions and users: approval, deletion, the password change
NextIdentity ==
    \/ UploadBy({"t1"}, {"bob"}, {Hex(1), Hex(2)}, {<<"a">>})
    \/ RegisterBy({"t1"}, {<<"e", "l">>, <<"a", "l">>}, {<<"e", "@", "x">>, <<"a", "@", "x">>})
    \/ ResetBy({"t1"}, {<<"e", "l">>})
    \/ Approve
    \/ DeleteSolution

SpecIdentity == Init /\ [][NextIdentity]_vars

(***************************************************************************)
(* Properties                                                              *)
(***************************************************************************)
Range(q) == {q[i] : i \in DOMAIN q}

\* Solutions referencing crackme c on which SolutionApprove has acted
ApprovedOf(c) ==
    {i \in Ix(solutions) :
        /\ solutions[i].CrackmeId = crackmes[c].ObjectId
        /\ solutions[i].ObjectId \in approved}

\* Solutions referencing crackme c with visible = true and deleted = false
LiveVisibleOf(c) ==
    {i \in Ix(solutions) :
        /\ solutions[i].CrackmeId = crackmes[c].ObjectId
        /\ solutions[i].Visible
        /\ ~solutions[i].Deleted}

\* Approved solutions referencing crackme c that have been deleted
DeletedVisibleOf(c) ==
    {i \in Ix(solutions) :
        /\ solutions[i].CrackmeId = crackmes[c].ObjectId
        /\ solutions[i].Visible
        /\ solutions[i].Deleted}

\* Comments created for crackme c
CommentsOf(c) == {i \in Ix(comments) : comments[i].CrackMeHexId = crackmes[c].HexId}

\* C1: with no deletions, every crackme's NbSolutions is the number of
\* solutions referencing it that have been approved: creating a solution
\* leaves it alone, each approval adds exactly 1.
C1_NbSolutionsCountsApprovals ==
    \A c \in Ix(crackmes) : crackmes[c].NbSolutions = Cardinality(ApprovedOf(c))

\* C1 witness: one solution approved and counted, another created and pending.
C1_Witness ==
    \E c \in Ix(crackmes), j \in Ix(solutions) :
        /\ crackmes[c].NbSolutions = 1
        /\ ApprovedOf(c) # {}
        /\ ~solutions[j].Visible

\* C2: with no deletions, every crackme's NbComments is the number of
\* comments created for it (each successful CommentCreate adds exactly 1).
C2_NbCommentsCountsCreations ==
    \A c \in Ix(crackmes) : crackmes[c].NbComments = Cardinality(CommentsOf(c))

\* C3 as claimed: whenever the crackme can be read, its NbSolutions is the
\* number of solutions referencing it with visible = true and deleted = false,
\* deletions included.
C3_NbSolutionsEqualsLiveVisible ==
    \A c \in Ix(crackmes) :
        LET r == CrackmeByHexId(crackmes[c].HexId)
        IN  r.err = "nil" => r.res.NbSolutions = Cardinality(LiveVisibleOf(c))

\* C3 as amended: whenever the crackme can be read, its NbSolutions is never
\* below the number of visible, non-deleted solutions referencing it, and
\* equals that number as long as no approved solution of the crackme has been
\* deleted.
C3_NbSolutionsCoversLiveVisible ==
    \A c \in Ix(crackmes) :
        LET r == CrackmeByHexId(crackmes[c].HexId)
        IN  r.err = "nil" =>
                /\ r.res.NbSolutions >= Cardinality(LiveVisibleOf(c))
                /\ DeletedVisibleOf(c) = {} =>
                       r.res.NbSolutions = Cardinality(LiveVisibleOf(c))

\* C3 witness: an approved solution has been deleted and the counter still
\* counts it.
C3_Witness ==
    \E c \in Ix(crackmes) :
        /\ connected
        /\ DeletedVisibleOf(c) # {}
        /\ crackmes[c].NbSolutions > Cardinality(LiveVisibleOf(c))

\* C4: an upload that starts while a pending or approved solution of its
\* author for its crackme exists never gets past the duplicate check.
C4_DuplicateRejectedAtStart == \A p \in Procs : pc[p] # "idle" => ~req[p].dup

\* C5: for every (author, crackme) there is at most one solution with
\* deleted = false.
C5_AtMostOneLiveSolution ==
    \A i, j \in Ix(solutions) :
        (/\ i # j
         /\ solutions[i].Author = solutions[j].Author
         /\ solutions[i].CrackmeId = solutions[j].CrackmeId)
            => solutions[i].Deleted \/ solutions[j].Deleted

\* C6: a solution enters the collection with visible = false and
\* deleted = false, and a solution is visible only if SolutionApprove has
\* acted on it.
C6_VisibleOnlyByApprove ==
    /\ [](\A i \in Ix(solutions) : solutions[i].Visible => solutions[i].ObjectId \in approved)
    /\ [][\A i \in Ix(solutions') :
             i \notin Ix(solutions) => ~solutions'[i].Visible /\ ~solutions'[i].Deleted]_vars

\* C6 witness: a pending solution whose upload has finished, with its file
\* written and its notification sent, beside a comment.
C6_Witness ==
    \E i \in Ix(solutions) :
        /\ ~solutions[i].Visible
        /\ pc["t1"] = "idle"
        /\ files # {}
        /\ notifications # << >>
        /\ comments # << >>

\* C7: the comment a successful CommentCreate inserts has visible = true and
\* deleted = false in the state right after the call, and CommentsByCrackMe
\* returns it for its crackme.
C7_CommentVisibleAtOnce ==
    [][\A i \in Ix(comments'), h \in CrackmeHexInputs :
          (i \notin Ix(comments) /\ comments'[i].CrackMeHexId = h) =>
              /\ comments'[i].Visible
              /\ ~comments'[i].Deleted
              /\ (CommentsByCrackMe(h).err)' = "nil"
              /\ comments'[i] \in (Range(CommentsByCrackMe(h).res))']_vars

\* C7 witness: a comment has just been created.
C7_Witness == commentPc = "notify" /\ comments # << >>

\* C8: a crackme, solution or comment with deleted = true keeps its place,
\* its identity and deleted = true in every step.
C8_DeletionIsTerminal ==
    [][/\ \A i \in Ix(solutions) :
            solutions[i].Deleted =>
                /\ i \in Ix(solutions')
                /\ solutions'[i].ObjectId = solutions[i].ObjectId
                /\ solutions'[i].Deleted
       /\ \A i \in Ix(comments) :
            comments[i].Deleted =>
                /\ i \in Ix(comments')
                /\ comments'[i].ObjectId = comments[i].ObjectId
                /\ comments'[i].Deleted
       /\ \A i \in Ix(crackmes) :
            crackmes[i].Deleted =>
                /\ i \in Ix(crackmes')
                /\ crackmes'[i].ObjectId = crackmes[i].ObjectId
                /\ crackmes'[i].Deleted]_vars

\* C8 witness: a deleted crackme whose counters the repair run has rewritten,
\* an approved solution since deleted, and a deleted comment, with the store
\* unreachable after the last of these steps.
C8_Witness ==
    /\ \E i \in Ix(crackmes) :
            crackmes[i].Deleted /\ crackmes[i].NbSolutions = 1 /\ crackmes[i].NbComments = 1
    /\ \E i \in Ix(solutions) : solutions[i].Deleted /\ solutions[i].Visible
    /\ \E i \in Ix(comments) : comments[i].Deleted
    /\ ~connected

\* C9: while the store is reachable no read operation counts or lists a
\* solution or comment with deleted = true.
C9_DeletedNeverRead ==
    connected =>
        /\ \A i \in Ix(solutions) :
            solutions[i].Deleted =>
                /\ solutions[i] \notin Range(SolutionsByUser(solutions[i].Author).res)
                /\ solutions[i] \notin Range(SolutionsByCrackme(solutions[i].CrackmeId).res)
                /\ SolutionByHexId(solutions[i].HexId).res # solutions[i]
        /\ \A i \in Ix(comments) :
            comments[i].Deleted =>
                /\ comments[i] \notin Range(CommentsByUser(comments[i].Author).res)
                /\ comments[i] \notin Range(CommentsByCrackMe(comments[i].CrackMeHexId).res)
        /\ \A u \in Users :
            /\ CountSolutionsByUser(u).nb <=
                   Cardinality({i \in Ix(solutions) :
                                   solutions[i].Author = u /\ ~solutions[i].Deleted})
            /\ CountCommentsByUser(u).nb <=
                   Cardinality({i \in Ix(comments) :
                                   comments[i].Author = u /\ ~comments[i].Deleted})
        /\ \A c \in Ix(crackmes) :
            /\ CountSolutionsByCrackme(crackmes[c].HexId).nb <=
                   Cardinality({i \in Ix(solutions) :
                                   /\ solutions[i].CrackmeId = crackmes[c].ObjectId
                                   /\ ~solutions[i].Deleted})
            /\ CountCommentsByCrackme(crackmes[c].HexId).nb <=
                   Cardinality({i \in CommentsOf(c) : ~comments[i].Deleted})

\* The elements of a path after normalisation
PathElems(path) == CleanElems(SplitSlash(path), << >>, path # Str0 /\ path[1] = "/")

\* path names a file below root: root's elements, then at least one more,
\* none of them ".."
StrictlyInside(path, root) ==
    LET pe == PathElems(path)
        re == PathElems(root)
    IN  /\ (path # Str0 /\ path[1] = "/") <=> (root # Str0 /\ root[1] = "/")
        /\ Len(pe) > Len(re)
        /\ SubSeq(pe, 1, Len(re)) = re
        /\ \A k \in (Len(re) + 1)..Len(pe) : pe[k] # <<".", ".">>

\* C10: every path UploadSolutionPOST hands to os.WriteFile, and every file
\* written, lies strictly inside the configured solution storage root.
C10_WritesInsideRoot ==
    /\ \A p \in Procs : pc[p] = "write" => StrictlyInside(req[p].safePath, GetSolutionPath)
    /\ \A f \in files : StrictlyInside(f, GetSolutionPath)

\* C10 witness: the upload named "../../etc/passwd" has written its file.
C10_Witness ==
    /\ pc["t1"] = "notify"
    /\ req["t1"].filename = EtcPasswd
    /\ req["t1"].safePath \in files

\* A file name with no directory component and only characters of the
\* allow-list of sanitize.Name (letters, digits, "-" and ".")
IsCleanName(f) == f # Str0 /\ \A k \in 1..Len(f) : IsLegalNameChar(f[k])

\* C11: for a clean file name f, the path handed to os.WriteFile is the file
\* username+++hexid+++f directly under the storage root.
C11_CleanNameStoredExactly ==
    \A p \in Procs :
        (pc[p] = "write" /\ IsCleanName(req[p].filename)) =>
            PathElems(req[p].safePath) =
                PathElems(GetSolutionPath) \o
                    <<Chars(req[p].username) \o Plus3 \o req[p].hexid \o Plus3 \o req[p].filename>>

\* C12: when the path check of an upload fails, that request has written
\* nothing: no file is on disk and no Solution record is left in the store
\* (the path specification runs one upload, so any record is that request's).
C12_InvalidPathWritesNothing ==
    flash.msg = "InvalidPath" => files = {} /\ solutions = << >>

\* C13: the hex id in the path an upload hands to os.WriteFile is the HexId of
\* the Solution document that same request inserted, never empty, and two
\* requests never hold the same path to write.
C13_FileNameCarriesOwnHexId ==
    \A p \in Procs :
        pc[p] = "write" =>
            /\ req[p].hexid # Str0
            /\ req[p].hexid = req[p].created
            /\ \A q \in Procs \ {p} : pc[q] = "write" => req[q].safePath # req[p].safePath

C15_UserLookupIsExact ==
    /\ \A n \in LookupNames : UserByName(n).err = "nil" => UserByName(n).res.Name = n
    /\ \A e \in LookupEmails : UserByMail(e).err = "nil" => UserByMail(e).res.Email = e

\* The author of the stored crackme with this hex id
AuthorOf(hexid) ==
    crackmes[First({i \in Ix(crackmes) : crackmes[i].HexId = hexid})].Author

\* The step of LeaveCommentPOST that follows the creation of the comment
CommentNotifyStep == commentPc = "notify" /\ commentPc' = "idle"

\* C16 as claimed: after a comment by U on a crackme of author A # U is
\* created, the handler appends exactly one notification.
C16_AuthorAlwaysNotified ==
    [][(CommentNotifyStep /\ AuthorOf(commentReq.crackmehexid) # commentReq.username) =>
          Len(notifications') = Len(notifications) + 1]_vars

\* C16 as amended: the creation step appends nothing; the step after it
\* appends at most one notification, addressed to the crackme's author A and
\* naming the commenter U; it appends none when U = A and none when the store
\* is unreachable at that step.
C16_OnlyAuthorNotified ==
    [][/\ (commentPc = "idle" /\ commentPc' = "notify") => notifications' = notifications
       /\ CommentNotifyStep =>
            LET U == commentReq.username
                A == AuthorOf(commentReq.crackmehexid)
            IN  /\ \/ notifications' = notifications
                   \/ /\ U # A
                      /\ connected
                      /\ Len(notifications') = Len(notifications) + 1
                      /\ SubSeq(notifications', 1, Len(notifications)) = notifications
                      /\ notifications'[Len(notifications')].Recipient = A
                      /\ notifications'[Len(notifications')].Text.By = U
                /\ U = A => notifications' = notifications
                /\ ~connected => notifications' = notifications]_vars

\* C16 witness: bob's comment on alice's crackme has been notified to alice,
\* and to nobody else.
C16_Witness ==
    /\ flash = Flash("lc", "Uploaded")
    /\ Len(notifications) = 1
    /\ notifications[1].Recipient = "alice"
    /\ notifications[1].Text.Kind = "comment"
    /\ notifications[1].Text.By = "bob"

\* C17 as claimed: an upload that has created its Solution record does not
\* end without one 'waiting approval' notification to the submitter.
C17_CreationAlwaysNotified ==
    [][\A p \in Procs :
          (pc[p] # "idle" /\ pc'[p] = "idle" /\ req[p].created # Str0) =>
              /\ Len(notifications') = Len(notifications) + 1
              /\ notifications'[Len(notifications')].Recipient = req[p].username
              /\ notifications'[Len(notifications')].Text.Kind = "waiting"]_vars

\* C17 as amended: a step of an upload appends at most one notification, and
\* only its last step does, after the file has been written and with the
\* store reachable: a 'waiting approval' notification addressed to the
\* submitter, never to anyone else.
C17_OnlySubmitterNotified ==
    [][\A p \in Procs :
          pc'[p] # pc[p] =>
              \/ notifications' = notifications
              \/ /\ pc[p] = "notify"
                 /\ connected
                 /\ req[p].safePath \in files
                 /\ Len(notifications') = Len(notifications) + 1
                 /\ SubSeq(notifications', 1, Len(notifications)) = notifications
                 /\ notifications'[Len(notifications')].Recipient = req[p].username
                 /\ notifications'[Len(notifications')].Text.Kind = "waiting"]_vars

\* C17 witness: bob's upload for alice's crackme has created its record,
\* written its file and notified bob, and nobody else.
C17_Witness ==
    /\ flash = Flash("t1", "Uploaded")
    /\ Len(solutions) = 1
    /\ solutions[1].CrackmeName = "cm1"
    /\ files # {}
    /\ Len(notifications) = 1
    /\ notifications[1].Recipient = "bob"
    /\ notifications[1].Text.Kind = "waiting"

\* C18: the step that sends the notification of a comment or of an upload,
\* whether the lookup and the delivery succeed or not, leaves the comments,
\* the solutions and the files as they are, shows the success outcome, and
\* ends the request, so that nothing is left to send the notification again.
C18_NotificationNeverFailsRequest ==
    [][/\ CommentNotifyStep =>
            /\ comments' = comments
            /\ solutions' = solutions
            /\ files' = files
            /\ flash' = Flash("lc", "Uploaded")
            /\ commentReq' = IdleComment
       /\ \A p \in Procs :
            (pc[p] = "notify" /\ pc'[p] = "idle") =>
                /\ comments' = comments
                /\ solutions' = solutions
                /\ files' = files
                /\ flash' = Flash(p, "Uploaded")
                /\ req'[p] = IdleReq]_vars

\* C18 witness: bob's comment on alice's crackme is stored and the request has
\* ended with 'Comment uploaded' although, with the store reachable for the
\* lookup, the notification was not delivered.
C18_Witness ==
    /\ flash = Flash("lc", "Uploaded")
    /\ connected
    /\ notifications = << >>
    /\ Len(comments) = 1
    /\ comments[1].Author = "bob"
    /\ comments[1].CrackMeHexId = Hex(1)
    /\ ~comments[1].Deleted

\* C19: while the store is unreachable every operation of the user, solution
\* and comment models returns ErrUnavailable, sends nothing to the store and
\* leaves its collection as it is.
C19_UnavailableEverywhere ==
    ~connected =>
        /\ CountUsers.err = "ErrUnavailable"
        /\ CountSolutions.err = "ErrUnavailable"
        /\ \A n \in LookupNames : UserByName(n).err = "ErrUnavailable"
        /\ \A e \in LookupEmails : UserByMail(e).err = "ErrUnavailable"
        /\ \A h \in CrackmeHexInputs :
            /\ UserByHexId(h).err = "ErrUnavailable"
            /\ SolutionByHexId(h).err = "ErrUnavailable"
            /\ CountSolutionsByCrackme(h).err = "ErrUnavailable"
            /\ CountCommentsByCrackme(h).err = "ErrUnavailable"
            /\ CommentsByCrackMe(h).err = "ErrUnavailable"
            /\ SolutionsByCrackme(ObjectIDFromHex(h).id).err = "ErrUnavailable"
            /\ \A u \in Users :
                /\ SolutionsByUserAndCrackMe(u, h).err = "ErrUnavailable"
                /\ SolutionCreate(u, h).err = "ErrUnavailable"
                /\ SolutionCreate(u, h).coll = solutions
                /\ CommentCreate(u, h).err = "ErrUnavailable"
                /\ CommentCreate(u, h).coll = comments
        /\ \A u \in Users :
            /\ CountSolutionsByUser(u).err = "ErrUnavailable"
            /\ SolutionsByUser(u).err = "ErrUnavailable"
            /\ CountCommentsByUser(u).err = "ErrUnavailable"
            /\ CommentsByUser(u).err = "ErrUnavailable"
        /\ \A n \in UserNames :
            /\ UserCreate(n, <<"e", "@", "x">>, HashString(RegisteredPassword)).err = "ErrUnavailable"
            /\ UserCreate(n, <<"e", "@", "x">>, HashString(RegisteredPassword)).coll = users
            /\ UpdateUserPassword(n, HashString(LongPassword)).err = "ErrUnavailable"
            /\ ~UpdateUserPassword(n, HashString(LongPassword)).sent
            /\ UpdateUserPassword(n, HashString(LongPassword)).coll = users

\* C20: an upload whose SolutionCreate returned an error goes no further: it
\* never reaches the file write, the notification or the success outcome.
C20_CreateErrorAbortsUpload ==
    \A p \in Procs : pc[p] \in {"write", "notify"} => req[p].err = "nil"

\* C21: every solution and every user carries the hex rendering of its own
\* ObjectId as HexId, hex ids are pairwise distinct within each collection,
\* and no step changes the ObjectId or the HexId of a record that exists.
C21_HexIdIsOwnAndFixed ==
    /\ [](/\ \A i \in Ix(solutions) : solutions[i].HexId = Hex(solutions[i].ObjectId)
          /\ \A i \in Ix(users) : users[i].HexId = Hex(users[i].ObjectId)
          /\ \A i, j \in Ix(solutions) :
                 i # j => solutions[i].HexId # solutions[j].HexId
          /\ \A i, j \in Ix(users) : i # j => users[i].HexId # users[j].HexId)
    /\ [][/\ \A i \in Ix(solutions) :
                /\ i \in Ix(solutions')
                /\ solutions'[i].HexId = solutions[i].HexId
                /\ solutions'[i].ObjectId = solutions[i].ObjectId
          /\ \A i \in Ix(users) :
                /\ i \in Ix(users')
                /\ users'[i].HexId = users[i].HexId
                /\ users'[i].ObjectId = users[i].ObjectId]_vars

\* C21 witness: two solutions, one approved and then deleted, or a deleted
\* solution beside a registered user.
C21_Witness ==
    /\ \E i \in Ix(solutions) : solutions[i].Visible /\ solutions[i].Deleted
    /\ users # << >> \/ Len(solutions) = 2

\* C22: once storage.init has run, the crackme root is CRACKME_STORAGE_PATH
\* if that is non-empty and "tmp/crackme" otherwise, the solution root is
\* SOLUTION_STORAGE_PATH if that is non-empty and "tmp/solution" otherwise,
\* and two environments that agree on one variable get the same root for it
\* whatever the other variable is.
C22_RootsResolvedIndependently ==
    /\ config # ZeroInfo =>
          /\ GetCrackmePath =
                IF env.CRACKME_STORAGE_PATH # Str0 THEN env.CRACKME_STORAGE_PATH
                ELSE <<"t", "m", "p", "/", "c", "r", "a", "c", "k", "m", "e">>
          /\ GetSolutionPath =
                IF env.SOLUTION_STORAGE_PATH # Str0 THEN env.SOLUTION_STORAGE_PATH
                ELSE <<"t", "m", "p", "/", "s", "o", "l", "u", "t", "i", "o", "n">>
    /\ \A e1, e2 \in EnvInputs :
          /\ e1.CRACKME_STORAGE_PATH = e2.CRACKME_STORAGE_PATH
                => Configure(e1).CrackmePath = Configure(e2).CrackmePath
          /\ e1.SOLUTION_STORAGE_PATH = e2.SOLUTION_STORAGE_PATH
                => Configure(e1).SolutionPath = Configure(e2).SolutionPath

\* C22 witness: only CRACKME_STORAGE_PATH is set, the solution root is the
\* default, and an upload has written its file under it.
C22_Witness ==
    /\ env.CRACKME_STORAGE_PATH # Str0
    /\ env.SOLUTION_STORAGE_PATH = Str0
    /\ GetCrackmePath = env.CRACKME_STORAGE_PATH
    /\ GetSolutionPath = DefaultSolutionPath
    /\ files # {}

\* C23: a request gets past the duplicate check only if no pending or
\* approved solution of its author for its crackme existed when the check
\* ran, and its SolutionCreate then inserts a new pending solution even if
\* another request has inserted one for the same author and crackme in
\* between: the insert does not repeat the check.
C23_InsertDoesNotRecheck ==
    /\ [](\A p \in Procs : pc[p] = "create" => ~req[p].dup)
    /\ [][\A p \in Procs :
             (/\ pc[p] = "create"
              /\ pc'[p] = "lookup"
              /\ HasLiveSolution(req[p].username, req[p].hexidcrackme)) =>
                 /\ Len(solutions') = Len(solutions) + 1
                 /\ \A i \in Ix(solutions) : solutions'[i] = solutions[i]
                 /\ solutions'[Len(solutions')].Author = req[p].username
                 /\ solutions'[Len(solutions')].CrackmeHexId = req[p].hexidcrackme
                 /\ ~solutions'[Len(solutions')].Visible
                 /\ ~solutions'[Len(solutions')].Deleted]_vars

\* C23 witness: two pending solutions of one author for one crackme.
C23_Witness ==
    \E i, j \in Ix(solutions) :
        /\ i # j
        /\ solutions[i].Author = solutions[j].Author
        /\ solutions[i].CrackmeId = solutions[j].CrackmeId
        /\ ~solutions[i].Visible /\ ~solutions[i].Deleted
        /\ ~solutions[j].Visible /\ ~solutions[j].Deleted

\* C24: with no deletions and no repair run, once every request has
\* completed each crackme's NbSolutions has grown from 0 by the number of
\* approvals of its solutions and its NbComments by the number of comments
\* created for it: one increment per event, none lost, none applied twice.
C24_OneIncrementPerEvent ==
    (commentPc = "idle" /\ \A p \in Procs : pc[p] = "idle") =>
        \A c \in Ix(crackmes) :
            /\ crackmes[c].NbSolutions = Cardinality(ApprovedOf(c))
            /\ crackmes[c].NbComments = Cardinality(CommentsOf(c))

\* Comments on crackme c with visible = true and deleted = false
LiveVisibleCommentsOf(c) ==
    {i \in Ix(comments) :
        /\ comments[i].CrackMeHexId = crackmes[c].HexId
        /\ comments[i].Visible
        /\ ~comments[i].Deleted}

\* A solution or a comment of crackme c has been deleted
HasDeletedChild(c) ==
    \/ \E i \in Ix(solutions) :
          solutions[i].CrackmeId = crackmes[c].ObjectId /\ solutions[i].Deleted
    \/ \E i \in Ix(comments) :
          comments[i].CrackMeHexId = crackmes[c].HexId /\ comments[i].Deleted

\* C25: a step that deletes a solution or a comment leaves both counters of
\* every crackme as they were, and with no repair run, once a child of a
\* crackme has been deleted its NbSolutions is never below the number of its
\* visible, non-deleted solutions and its NbComments never below the number
\* of its visible, non-deleted comments.
C25_DeleteKeepsCountersOvercounting ==
    /\ [][(\/ \E i \in Ix(solutions) : ~solutions[i].Deleted /\ solutions'[i].Deleted
           \/ \E i \in Ix(comments) : ~comments[i].Deleted /\ comments'[i].Deleted)
             => crackmes' = crackmes]_vars
    /\ [](\A c \in Ix(crackmes) :
            HasDeletedChild(c) =>
                /\ crackmes[c].NbSolutions >= Cardinality(LiveVisibleOf(c))
                /\ crackmes[c].NbComments >= Cardinality(LiveVisibleCommentsOf(c)))

\* Solutions referencing crackme c with visible = true
VisibleSolutionsOf(c) ==
    {i \in Ix(solutions) :
        solutions[i].CrackmeId = crackmes[c].ObjectId /\ solutions[i].Visible}

\* Comments on crackme c with visible = true
VisibleCommentsOf(c) ==
    {i \in Ix(comments) :
        comments[i].CrackMeHexId = crackmes[c].HexId /\ comments[i].Visible}

\* A step of the repair run: the store is reachable, no handler moves, no
\* solution, comment or notification changes, and no crackme changes other
\* than in its counters
RepairStep ==
    /\ connected /\ connected' = connected
    /\ flash' = NoFlash
    /\ UNCHANGED <<nextObjId, solutions, comments, notifications, files, env, config,
                   pc, req, commentPc, commentReq, served, approved, userVars>>
    /\ Len(crackmes') = Len(crackmes)
    /\ \A c \in Ix(crackmes) :
          [crackmes'[c] EXCEPT !.NbSolutions = 0, !.NbComments = 0] =
              [crackmes[c] EXCEPT !.NbSolutions = 0, !.NbComments = 0]

\* A step of UploadSolutionPOST or LeaveCommentPOST
HandlerStep == pc' # pc \/ commentPc' # commentPc \/ flash'.task # ""

\* C26: right after a repair run every crackme's NbSolutions is the number
\* of visible solutions referencing it and its NbComments the number of
\* visible comments on it, whatever the counters were before; and no step
\* of a request handler overwrites a counter (it leaves it, or adds 1).
C26_RepairOverwritesWithTrueCounts ==
    [][/\ RepairStep =>
             \A c \in Ix(crackmes) :
                 /\ crackmes'[c].NbSolutions = Cardinality(VisibleSolutionsOf(c))
                 /\ crackmes'[c].NbComments = Cardinality(VisibleCommentsOf(c))
       /\ HandlerStep =>
             \A c \in Ix(crackmes) :
                 /\ crackmes'[c].NbSolutions - crackmes[c].NbSolutions \in {0, 1}
                 /\ crackmes'[c].NbComments - crackmes[c].NbComments \in {0, 1}]_vars

\* C26 witness: the repair run has set NbComments to 1 for a crackme with
\* one comment (no request raises it) and left NbSolutions at 0 for its one
\* pending solution.
C26_Witness ==
    \E c \in Ix(crackmes) :
        /\ crackmes[c].NbComments = 1
        /\ Cardinality(VisibleCommentsOf(c)) = 1
        /\ crackmes[c].NbSolutions = 0
        /\ \E i \in Ix(solutions) :
              solutions[i].CrackmeId = crackmes[c].ObjectId /\ ~solutions[i].Visible

\* C27: deleted solutions do not count for the duplicate check: an upload
\* is refused as already submitted only while a solution with
\* deleted = false exists (every upload here is by one author for one
\* crackme, so every solution is of that author for that crackme).
C27_DeletedDoNotBlock ==
    flash.msg = "AlreadySubmitted" => \E i \in Ix(solutions) : ~solutions[i].Deleted

\* crackmes with d added to NbSolutions and e to NbComments of the crackme
\* with this hex id, and nothing else changed
CountersRaised(hexid, d, e) ==
    [c \in Ix(crackmes) |->
        IF crackmes[c].HexId = hexid
        THEN [crackmes[c] EXCEPT !.NbSolutions = @ + d, !.NbComments = @ + e]
        ELSE crackmes[c]]

\* C28: a step that approves a solution raises NbSolutions of the
\* solution's crackme by 1 and changes no other counter of any crackme; a
\* step that creates a comment raises NbComments of the commented crackme
\* by 1 and changes no other counter of any crackme.
C28_IncrementOnceForOwnerOnly ==
    [][/\ \A i \in Ix(solutions) :
             (~solutions[i].Visible /\ solutions'[i].Visible) =>
                 crackmes' = CountersRaised(solutions[i].CrackmeHexId, 1, 0)
       /\ Len(comments') = Len(comments) + 1 =>
             crackmes' = CountersRaised(comments'[Len(comments')].CrackMeHexId, 0, 1)]_vars

\* C29: when the file write of an upload whose insert succeeded fails, the
\* request ends there: the step changes no solution, writes no file and
\* adds no notification; the solution the request inserted is still in the
\* collection, pending unless it was approved or deleted in the meantime,
\* and no file carrying its hex id exists.
C29_FailedWriteLeavesOrphan ==
    [][\A p \in Procs :
          (pc[p] = "write" /\ pc'[p] = "idle" /\ req[p].err = "nil") =>
              /\ solutions' = solutions
              /\ files' = files
              /\ notifications' = notifications
              /\ flash' = Flash(p, "ServerError")
              /\ \E i \in Ix(solutions') :
                    /\ solutions'[i].HexId = req[p].created
                    /\ (solutions'[i].ObjectId \notin approved /\ ~solutions'[i].Deleted)
                          => ~solutions'[i].Visible
                    /\ UploadPath(req[p].username, solutions'[i].HexId,
                                  req[p].filename).path \notin files']_vars

\* C29 witness: the write has just failed; the pending solution is in the
\* collection, no file has been written and no notification sent.
C29_Witness ==
    /\ flash = Flash("t1", "ServerError")
    /\ \E i \in Ix(solutions) : ~solutions[i].Visible /\ ~solutions[i].Deleted
    /\ files = {}
    /\ notifications = << >>

\* C30: a solution with visible = false is not returned by SolutionByHexId,
\* SolutionsByUser or SolutionsByCrackme and not counted by
\* CountSolutionsByUser or CountSolutionsByCrackme; while the store is
\* reachable CountSolutions counts it and SolutionsByUserAndCrackMe finds a
\* solution of its author for its crackme.
C30_PendingHiddenFromReads ==
    \A i \in Ix(solutions) :
        LET s == solutions[i]
        IN  ~s.Visible =>
              /\ SolutionByHexId(s.HexId).res = EmptySolution
              /\ SolutionByHexId(s.HexId).err # "nil"
              /\ s \notin Range(SolutionsByUser(s.Author).res)
              /\ s \notin Range(SolutionsByCrackme(s.CrackmeId).res)
              /\ CountSolutionsByUser(s.Author).nb
                    <= Cardinality({j \in Ix(solutions) \ {i} :
                                       solutions[j].Author = s.Author})
              /\ CountSolutionsByCrackme(s.CrackmeHexId).nb
                    <= Cardinality({j \in Ix(solutions) \ {i} :
                                       solutions[j].CrackmeId = s.CrackmeId})
              /\ connected =>
                    /\ CountSolutions.nb = Len(solutions)
                    /\ SolutionsByUserAndCrackMe(s.Author, s.CrackmeHexId).res.Author
                          = s.Author
                    /\ SolutionsByUserAndCrackMe(s.Author, s.CrackmeHexId).res.CrackmeId
                          = s.CrackmeId

\* C30 witness: a pending solution beside an approved one of the same
\* author, with the store reachable: the per-user count is 1, the total 2.
C30_Witness ==
    /\ connected
    /\ \E i, j \in Ix(solutions) :
          /\ ~solutions[i].Visible
          /\ solutions[j].Visible
          /\ solutions[i].Author = solutions[j].Author
          /\ CountSolutionsByUser(solutions[i].Author).nb = 1
          /\ CountSolutions.nb = 2

\* Hex ids looked up: those of the two crackmes, of the first documents the
\* store creates, and a string that is no hex id
LookupHexIds == {Hex(1), Hex(2), Hex(3), Hex(4), <<"z", "z">>}

\* C31: on a reachable store a lookup by hex id, by name or by author and
\* crackme that matches no record returns the zero record with ErrNoResult,
\* and on an unreachable store every lookup returns ErrUnavailable; a
\* registration reaches UserCreate only after both of its lookups returned
\* ErrNoResult.
C31_NotFoundIsNotUnavailable ==
  /\ [][\A p \in Procs :
          (userPc[p] = "idle" /\ userPc'[p] = "create") =>
              /\ UserByMail(userReq'[p].email).err = "ErrNoResult"
              /\ UserByName(userReq'[p].name).err = "ErrNoResult"]_vars
  /\ [](
    /\ \A h \in LookupHexIds :
          /\ (connected /\ \A i \in Ix(users) : users[i].HexId # h) =>
                UserByHexId(h) = [res |-> EmptyUser, err |-> "ErrNoResult"]
          /\ (connected /\ \A i \in Ix(crackmes) : crackmes[i].HexId # h) =>
                CrackmeByHexId(h) = [res |-> EmptyCrackme, err |-> "ErrNoResult"]
          /\ (connected /\ \A i \in Ix(solutions) : solutions[i].HexId # h) =>
                SolutionByHexId(h) = [res |-> EmptySolution, err |-> "ErrNoResult"]
          /\ \A u \in Users :
                (connected /\ \A i \in Ix(solutions) :
                                 ~(solutions[i].Author = u /\ solutions[i].CrackmeHexId = h)) =>
                    SolutionsByUserAndCrackMe(u, h) =
                        [res |-> EmptySolution, err |-> "ErrNoResult"]
          /\ ~connected =>
                /\ UserByHexId(h).err = "ErrUnavailable"
                /\ CrackmeByHexId(h).err = "ErrUnavailable"
                /\ SolutionByHexId(h).err = "ErrUnavailable"
                /\ \A u \in Users : SolutionsByUserAndCrackMe(u, h).err = "ErrUnavailable"
    /\ \A n \in LookupNames :
          /\ (connected /\ \A i \in Ix(users) : ToLower(users[i].Name) # ToLower(n)
                                                  /\ ~RegexMatchI(n, users[i].Name)) =>
                UserByName(n) = [res |-> EmptyUser, err |-> "ErrNoResult"]
          /\ ~connected => UserByName(n).err = "ErrUnavailable")

\* C32: UserByName finds a user exactly when some stored name equals the
\* name looked up ignoring case, and returns a user with such a name; the
\* page UserGET builds then carries the stored spelling and the counts and
\* lists looked up under it.
C32_WholeNameIgnoringCase ==
    \A n \in LookupNames :
        LET r == UserByName(n)
            page == UserGET(n)
        IN  /\ r.err = "nil" => ToLower(r.res.Name) = ToLower(n)
            /\ (connected /\ \E i \in Ix(users) : ToLower(users[i].Name) = ToLower(n))
                  => r.err = "nil"
            /\ page.status = 200 =>
                  /\ page.username \in {users[i].Name : i \in Ix(users)}
                  /\ page.NbSolutions = CountSolutionsByUser(page.username).nb
                  /\ page.NbComments = CountCommentsByUser(page.username).nb
                  /\ page.solutions = SolutionsByUser(page.username).res
                  /\ page.comments = CommentsByUser(page.username).res

\* C33: storage.init runs once, and from then on GetCrackmePath and
\* GetSolutionPath return the same values in every state, whatever the
\* environment variables are changed to.
C33_RootsFrozenAfterStart ==
    [][config # ZeroInfo =>
          /\ GetCrackmePath' = GetCrackmePath
          /\ GetSolutionPath' = GetSolutionPath
          /\ config' # ZeroInfo]_vars

\* C33 witness: the environment no longer resolves to the roots in use, and
\* an upload has written its file under the root resolved at start.
C33_Witness ==
    /\ config # ZeroInfo
    /\ Configure(env).CrackmePath # GetCrackmePath
    /\ Configure(env).SolutionPath # GetSolutionPath
    /\ \E f \in files : HasPrefix(f, GetSolutionPath)

\* C34: no two users have the same name and no two have the same email,
\* whatever registrations have run and however they interleaved.
C34_NamesAndEmailsUnique ==
    \A i, j \in Ix(users) :
        i # j => users[i].Name # users[j].Name /\ users[i].Email # users[j].Email

\* C35: the repair run updates a crackme with the counts it took in its
\* earlier step, whatever approvals, comments or deletions have completed
\* in between: the update neither recounts nor adds.
C35_RepairOverwritesWithEarlierCount ==
    [][repair.pc = "set" /\ repair'.pc # "set" =>
          \A c \in Ix(crackmes) :
              IF c = repair.idx
              THEN crackmes'[c] = [crackmes[c] EXCEPT !.NbSolutions = repair.nbsolutions,
                                                      !.NbComments = repair.nbcomments]
              ELSE crackmes'[c] = crackmes[c]]_vars

\* C35 witness: the repair run and every request have finished, one
\* solution of the crackme is approved and visible, and NbSolutions is 0:
\* the approval's increment was overwritten by a count taken before it.
C35_Witness ==
    /\ repair.pc # "set"
    /\ repair.idx # 1
    /\ pc["t1"] = "idle" /\ commentPc = "idle"
    /\ Cardinality(VisibleSolutionsOf(1)) = 1
    /\ Cardinality(ApprovedOf(1)) = 1
    /\ crackmes[1].NbSolutions = 0

\* Solution i is the record of an upload that failed: no file carrying its
\* hex id has been stored
IsOrphan(i) ==
    UploadPath(solutions[i].Author, solutions[i].HexId, <<"a">>).path \notin files

\* C36: while the record of a failed upload by an author for a crackme
\* exists, no later upload by that author for that crackme stores a file
\* (every upload here carries the file name "a", and one runs at a time).
C36_FailedUploadBlocksAuthor ==
    [][\A p \in Procs :
          (pc[p] = "write" /\ pc'[p] = "notify") =>
              ~\E i \in Ix(solutions) :
                  /\ solutions[i].Author = req[p].username
                  /\ solutions[i].CrackmeHexId = req[p].hexidcrackme
                  /\ solutions[i].HexId # req[p].created
                  /\ IsOrphan(i)]_vars

\* C37: SolutionCreate and CommentCreate insert only when the lookup of the
\* crackme by hex id succeeds, and otherwise return an error and leave both
\* collections as they are; every solution carries the ObjectId, hex id and
\* name of a crackme in the store, and every comment the hex id and name of
\* one.
C37_CreateOnlyForExistingCrackme ==
    /\ [](/\ \A i \in Ix(solutions) :
               \E c \in Ix(crackmes) :
                   /\ solutions[i].CrackmeId = crackmes[c].ObjectId
                   /\ solutions[i].CrackmeHexId = crackmes[c].HexId
                   /\ solutions[i].CrackmeName = crackmes[c].Name
          /\ \A i \in Ix(comments) :
               \E c \in Ix(crackmes) :
                   /\ comments[i].CrackMeHexId = crackmes[c].HexId
                   /\ comments[i].CrackmeName = crackmes[c].Name)
    /\ [][/\ \A p \in Procs :
               (pc[p] = "create" /\ pc'[p] = "lookup") =>
                   IF CrackmeByHexId(req[p].hexidcrackme).err = "nil"
                   THEN /\ req'[p].err = "nil"
                        /\ Len(solutions') = Len(solutions) + 1
                        /\ solutions'[Len(solutions')].CrackmeHexId = req[p].hexidcrackme
                   ELSE /\ req'[p].err # "nil"
                        /\ solutions' = solutions
                        /\ comments' = comments
          /\ Len(comments') > Len(comments) =>
               CrackmeByHexId(comments'[Len(comments')].CrackMeHexId).err = "nil"
          /\ flash' = Flash("lc", "CreateFailed") =>
               comments' = comments /\ solutions' = solutions]_vars

\* C37 witness: SolutionCreate has returned the no-result error for a hex
\* id that is no crackme's and inserted nothing, beside a comment that was
\* created for an existing crackme.
C37_Witness ==
    /\ pc["t1"] = "lookup"
    /\ req["t1"].err = "ErrNoResult"
    /\ req["t1"].hexidcrackme = <<"z", "z">>
    /\ solutions = << >>
    /\ comments # << >>

\* A step that changes the stored password of a user
PasswordChanged ==
    \E i \in Ix(users) : i \in Ix(users') /\ users'[i].Password # users[i].Password

====
